---- MODULE Spec2Model ----
(***************************************************************************)
(* Model of the PDF title extractor / renamer (pdf_title_renamer.py).      *)
(*                                                                         *)
(* Strings are sequences of one-character strings, so that the string      *)
(* functions of the program (replace, strip, split, regular expressions,   *)
(* slicing) are computed the way the program computes them.  Characters    *)
(* outside ASCII are written by their code point ("u672a").                *)
(***************************************************************************)
EXTENDS Integers, Sequences, FiniteSets, TLC

VARIABLES
    sanIn,      \* sanitize_filename: the argument
    sanOut,     \* sanitize_filename: the returned name
    sanPc,      \* "in" before the call, "out" after it
    exDoc,      \* extract_title: the document
    exResult,   \* extract_title: the returned triple and the calls made
    exPc,       \* "call" before the call, "returned" after it
    scIn,       \* extract_title_from_text: the text of the region
    scOut,      \* extract_title_from_text: the returned line
    scPc,       \* "in" before the call, "out" after it
    rootExists,             \* os.path.exists(root_folder)
    recursive,              \* argument of rename_pdfs
    custom_unknown_name,    \* argument of rename_pdfs, NONE when not given
    hasSub,                 \* the root folder has the subfolder SUB_NAME
    fs,                     \* the files: folder, name, document
    stack,                  \* the running calls of process_directory
    stats,                  \* rename_pdfs: the counters
    global_title_counts,    \* rename_pdfs: generated name -> occurrences
    excel_data,             \* rename_pdfs: the file records
    cur,                    \* locals of the file in the collision loop
    summary,                \* <<counters>> once the summary is printed
    exit_code,              \* what main returned, -1 before
    pc,                     \* where main is
    trace,                  \* history: per record, how the file was named
    listed,                 \* history: the entries os.listdir returned
    faults,                 \* history: how many calls have raised so far
    interrupts,             \* history: the KeyboardInterrupts delivered so far
    runs,                   \* how many times the program has been started
    repTree,                \* reporter: the entries of root_dir
    repTodo,                \* reporter: the entries the walk has still to visit
    papers_data,            \* reporter: self.papers_data
    report_stats,           \* reporter: self.stats
    repPc,                  \* where run is
    repRet,                 \* what run returned, "None" before
    repWriters,             \* history: what the two report writers returned
    repFound                \* history: the PDFs the walk has met

sanVars == <<sanIn, sanOut, sanPc>>

exVars == <<exDoc, exResult, exPc>>

scVars == <<scIn, scOut, scPc>>

repVars ==
    <<repTree, repTodo, papers_data, report_stats, repPc, repRet, repWriters,
      repFound>>

inputVars == <<rootExists, recursive, custom_unknown_name, hasSub>>

batchVars ==
    <<inputVars, fs, stack, stats, global_title_counts, excel_data, cur,
      summary, exit_code, pc, trace, listed, faults, interrupts, runs>>

\* what a batch run never changes
envVars == <<inputVars, sanVars, exVars, scVars, repVars>>

vars == <<sanVars, exVars, scVars, repVars, batchVars>>

\* the variables of extract_title, in the runs of the other specifications
ExOff == exDoc = <<>> /\ exResult = <<>> /\ exPc = "off"

\* the variables of extract_title_from_text, in the runs of the other
\* specifications
ScOff == scIn = <<>> /\ scOut = <<>> /\ scPc = "off"

\* the variables of the reporter, in the runs of the other specifications
RepOff ==
    /\ repTree = {} /\ repTodo = <<>> /\ papers_data = <<>>
    /\ report_stats = <<>> /\ repPc = "off" /\ repRet = "None"
    /\ repWriters = <<>> /\ repFound = 0

\* the variables of rename_pdfs, in the runs of the other specifications
BatchOff ==
    /\ rootExists = FALSE /\ recursive = FALSE /\ hasSub = FALSE
    /\ custom_unknown_name = <<>> /\ fs = {} /\ stack = <<>> /\ stats = <<>>
    /\ global_title_counts = <<>> /\ excel_data = <<>> /\ cur = <<>>
    /\ summary = <<>> /\ exit_code = -1 /\ pc = "off" /\ trace = <<>>
    /\ listed = {} /\ faults = 0 /\ interrupts = 0 /\ runs = 0

(***************************************************************************)
(* Bounds                                                                  *)
(***************************************************************************)
MaxTail == 3            \* longest free suffix of a sanitize_filename input
MaxFiles == 3           \* most entries of the folder tree
MaxClock == 2           \* seconds a batch run may span
MaxFaults == 1          \* most calls that raise during a batch run
MaxInterrupts == 1      \* most KeyboardInterrupts delivered during a run
MaxLines == 3           \* most free lines of a text given to the scorer
MaxRuns == 2            \* most starts of the program on one folder
MaxFolders == 2         \* most entries of the root the reporter scans

(***************************************************************************)
(* Config                                                                  *)
(***************************************************************************)
MAX_TITLE_LENGTH == 150

\* mutant: the separator of directories is left in the name
ILLEGAL_CHARS_SlashKept ==
    << <<"<", <<"(">> >>, <<">", <<")">> >>, <<":", <<" ", "-">> >>,
       <<"\"", <<>> >>, <<"\\", <<"-">> >>,
       <<"|", <<"-">> >>, <<"?", <<>> >>, <<"*", <<>> >> >>

ILLEGAL_CHARS ==
    << <<"<", <<"(">> >>, <<">", <<")">> >>, <<":", <<" ", "-">> >>,
       <<"\"", <<>> >>, <<"/", <<"-">> >>, <<"\\", <<"-">> >>,
       <<"|", <<"-">> >>, <<"?", <<>> >>, <<"*", <<>> >> >>

MAX_PAGES_TO_CHECK == 3

TITLE_KEYWORDS ==
    << <<"r", "e", "s", "e", "a", "r", "c", "h">>,
       <<"s", "t", "u", "d", "y">>,
       <<"i", "n", "v", "e", "s", "t", "i", "g", "a", "t", "i", "o", "n">>,
       <<"a", "n", "a", "l", "y", "s", "i", "s">>,
       <<"m", "e", "t", "h", "o", "d">>,
       <<"a", "p", "p", "r", "o", "a", "c", "h">>,
       <<"a", "l", "g", "o", "r", "i", "t", "h", "m">>,
       <<"m", "o", "d", "e", "l">>,
       <<"s", "y", "s", "t", "e", "m">>,
       <<"f", "r", "a", "m", "e", "w", "o", "r", "k">>,
       <<"t", "e", "c", "h", "n", "i", "q", "u", "e">>,
       <<"s", "o", "l", "u", "t", "i", "o", "n">>,
       <<"t", "h", "e", "o", "r", "y">>,
       <<"d", "e", "s", "i", "g", "n">>,
       <<"i", "m", "p", "l", "e", "m", "e", "n", "t", "a", "t", "i", "o", "n">>,
       <<"e", "v", "a", "l", "u", "a", "t", "i", "o", "n">>,
       <<"c", "o", "m", "p", "a", "r", "i", "s", "o", "n">> >>

INSTITUTION_KEYWORDS ==
    << <<"u", "n", "i", "v", "e", "r", "s", "i", "t", "y">>,
       <<"i", "n", "s", "t", "i", "t", "u", "t", "e">>,
       <<"l", "a", "b">>,
       <<"l", "a", "b", "o", "r", "a", "t", "o", "r", "y">>,
       <<"s", "c", "h", "o", "o", "l">>,
       <<"c", "o", "l", "l", "e", "g", "e">>,
       <<"d", "e", "p", "a", "r", "t", "m", "e", "n", "t">>,
       <<"c", "e", "n", "t", "e", "r">>,
       <<"f", "a", "c", "u", "l", "t", "y">>,
       <<"a", "c", "a", "d", "e", "m", "y">>,
       <<"r", "e", "s", "e", "a", "r", "c", "h">>,
       <<"i", "n", "s", "t", "i", "t", "u", "t", "e", " ", "o", "f">>,
       <<"u", "n", "i", "v", "e", "r", "s", "i", "t", "y", " ", "o", "f">>,
       <<"d", "e", "p", "t", ".">>,
       <<"s", "c", "h", "o", "o", "l", " ", "o", "f">>,
       <<"c", "o", "l", "l", "e", "g", "e", " ", "o", "f">> >>

\* the literal alternatives of the pattern of extract_title_from_text,
\* r'\d{4}|vol\.|no\.|pp\.|et al|DOI|http|www|@|email|abstract|introduction',
\* in lower case (the pattern is applied with re.IGNORECASE)
NON_TITLE_MARKERS ==
    { <<"v", "o", "l", ".">>,
      <<"n", "o", ".">>,
      <<"p", "p", ".">>,
      <<"e", "t", " ", "a", "l">>,
      <<"d", "o", "i">>,
      <<"h", "t", "t", "p">>,
      <<"w", "w", "w">>,
      <<"@">>,
      <<"e", "m", "a", "i", "l">>,
      <<"a", "b", "s", "t", "r", "a", "c", "t">>,
      <<"i", "n", "t", "r", "o", "d", "u", "c", "t", "i", "o", "n">> }

\* f"重命名失败: {str(e)}", up to the text of the exception
RENAME_ERROR == <<"u91cd", "u547d", "u540d", "u5931", "u8d25", ":", " ">>

\* f"处理过程异常: {str(e)}", up to the text of the exception
PROCESSING_ERROR == <<"u5904", "u7406", "u8fc7", "u7a0b", "u5f02", "u5e38", ":", " ">>

\* the label "未命名" returned for an empty name
UNNAMED == <<"u672a", "u547d", "u540d">>

(***************************************************************************)
(* String helpers (Python str / re semantics)                              *)
(***************************************************************************)
\* characters matched by \s and removed by str.strip()
IsSpace(c) == c \in {" ", "\t", "\n"}

\* s[n:]
Drop(s, n) == SubSeq(s, n + 1, Len(s))

\* s[:n]
Take(s, n) == SubSeq(s, 1, IF n < Len(s) THEN n ELSE Len(s))

\* the first index >= i of s that holds no whitespace (Len(s) + 1 if none)
RECURSIVE SkipSpaces(_, _)
SkipSpaces(s, i) ==
    IF i > Len(s) \/ ~IsSpace(s[i]) THEN i ELSE SkipSpaces(s, i + 1)

\* the last index <= i of s that holds no whitespace (0 if none)
RECURSIVE SkipSpacesBack(_, _)
SkipSpacesBack(s, i) ==
    IF i < 1 \/ ~IsSpace(s[i]) THEN i ELSE SkipSpacesBack(s, i - 1)

\* s.strip()
Strip(s) ==
    LET a == SkipSpaces(s, 1)
        b == SkipSpacesBack(s, Len(s))
    IN  IF a > b THEN <<>> ELSE SubSeq(s, a, b)

\* ''.join(parts), by halves (each half is bound to a name, so that it is
\* computed once)
RECURSIVE Concat(_)
Concat(parts) ==
    IF Len(parts) = 0 THEN <<>>
    ELSE IF Len(parts) = 1 THEN parts[1]
    ELSE CHOOSE out \in
             {Concat(left) \o Concat(right) :
                 left \in {SubSeq(parts, 1, Len(parts) \div 2)},
                 right \in {SubSeq(parts, Len(parts) \div 2 + 1, Len(parts))}} : TRUE

\* s.replace(ch, rep) for a one-character ch
ReplaceChar(s, ch, rep) ==
    Concat([i \in 1 .. Len(s) |-> IF s[i] = ch THEN rep ELSE <<s[i]>>])

\* the loop "for char, replacement in table: s = s.replace(char, replacement)"
\* (the string of each pass is bound to a name, so that it is computed once)
RECURSIVE ReplaceAll(_, _)
ReplaceAll(s, table) ==
    IF table = <<>> THEN s
    ELSE CHOOSE out \in {ReplaceAll(replaced, Tail(table)) :
                            replaced \in {ReplaceChar(s, Head(table)[1],
                                                      Head(table)[2])}} : TRUE

\* re.sub(r'\s+', ' ', s): every maximal run of whitespace becomes one space
CollapseSpaces(s) ==
    Concat([i \in 1 .. Len(s) |->
               IF ~IsSpace(s[i]) THEN <<s[i]>>
               ELSE IF i = 1 \/ ~IsSpace(s[i - 1]) THEN <<" ">>
               ELSE <<>>])

\* re.sub(r'\s*\.\s*', '.', s): every period is matched together with the
\* whitespace run before it and the whitespace run after it, so a whitespace
\* character goes exactly when its run touches a period
CollapseDots(s) ==
    Concat([i \in 1 .. Len(s) |->
               IF ~IsSpace(s[i]) THEN <<s[i]>>
               ELSE LET n == SkipSpaces(s, i)
                        p == SkipSpacesBack(s, i)
                    IN  IF (n <= Len(s) /\ s[n] = ".") \/ (p >= 1 /\ s[p] = ".")
                        THEN <<>> ELSE <<s[i]>>])

(***************************************************************************)
(* sanitize_filename                                                       *)
(***************************************************************************)
\* lines 105 to 113: the cut at MAX_TITLE_LENGTH and the label of an empty
\* name
CutOrUnnamed(collapsed) ==
    LET cut == IF Len(collapsed) > MAX_TITLE_LENGTH
               THEN Take(collapsed, MAX_TITLE_LENGTH)
               ELSE collapsed
    IN  IF cut = <<>> \/ cut = <<".">> THEN UNNAMED ELSE cut

\* (the string of each step is bound to a name, so that it is computed once)
sanitize_filename(filename) ==
    IF filename = <<>> THEN UNNAMED
    ELSE CHOOSE out \in
             {CutOrUnnamed(collapsed) :
                 collapsed \in {CollapseDots(stripped) :
                 stripped \in {Strip(spaced) :
                 spaced \in {CollapseSpaces(replaced) :
                 replaced \in {ReplaceAll(filename, ILLEGAL_CHARS)}}}}} : TRUE

(***************************************************************************)
(* Text helpers (Python str semantics on ASCII text)                       *)
(***************************************************************************)
UPPER ==
    << "A", "B", "C", "D", "E", "F", "G", "H", "I", "J", "K", "L", "M",
       "N", "O", "P", "Q", "R", "S", "T", "U", "V", "W", "X", "Y", "Z" >>

LOWER ==
    << "a", "b", "c", "d", "e", "f", "g", "h", "i", "j", "k", "l", "m",
       "n", "o", "p", "q", "r", "s", "t", "u", "v", "w", "x", "y", "z" >>

DIGITS == {"0", "1", "2", "3", "4", "5", "6", "7", "8", "9"}

\* c.isupper()
IsUpper(c) == \E i \in 1 .. 26 : UPPER[i] = c

\* c.lower()
LowerChar(c) ==
    IF IsUpper(c) THEN LOWER[CHOOSE i \in 1 .. 26 : UPPER[i] = c] ELSE c

\* s.lower()
Lower(s) == [i \in 1 .. Len(s) |-> LowerChar(s[i])]

\* mutant: no line counts as purely numeric
IsDigitStrNever(s) == FALSE

\* s.isdigit(): non-empty and digits only
IsDigitStr(s) == s # <<>> /\ \A i \in 1 .. Len(s) : s[i] \in DIGITS

\* sub in s
Contains(s, sub) ==
    \E i \in 1 .. (Len(s) - Len(sub) + 1) : SubSeq(s, i, i + Len(sub) - 1) = sub

\* len(s.split()): the number of maximal runs of non-whitespace
WordCount(s) ==
    Cardinality({i \in 1 .. Len(s) :
                    ~IsSpace(s[i]) /\ (i = 1 \/ IsSpace(s[i - 1]))})

\* s.split('\n')
RECURSIVE SplitLines(_)
SplitLines(s) ==
    IF \A i \in 1 .. Len(s) : s[i] # "\n" THEN <<s>>
    ELSE LET i == CHOOSE k \in 1 .. Len(s) :
                      s[k] = "\n" /\ \A j \in 1 .. (k - 1) : s[j] # "\n"
         IN  <<SubSeq(s, 1, i - 1)>> \o SplitLines(Drop(s, i))

\* [x for x in seq if Keep(x)]
Filter(seq, Keep(_)) ==
    Concat([i \in 1 .. Len(seq) |-> IF Keep(seq[i]) THEN <<seq[i]>> ELSE <<>>])

\* Python's None, where a string is expected
NONE == <<"None">>

\* truth value of an optional string: None and '' are false
Truthy(s) == s # NONE /\ s # <<>>

\* any(keyword in s.lower() for keyword in keywords)
HasKeyword(s, keywords) ==
    \E k \in 1 .. Len(keywords) : Contains(Lower(s), keywords[k])

(***************************************************************************)
(* validate_title                                                          *)
(***************************************************************************)
\* mutant: every title of at least 5 characters is accepted
validate_title_LengthOnly(title) ==
    Truthy(title) /\ Len(Strip(title)) >= 5

validate_title(title) ==
    IF ~Truthy(title) \/ Len(Strip(title)) < 5 THEN FALSE
    ELSE IF HasKeyword(title, TITLE_KEYWORDS) THEN TRUE
    ELSE WordCount(title) >= 3 /\ Len(title) > 15

(***************************************************************************)
(* extract_institution                                                     *)
(***************************************************************************)
extract_institution(text) ==
    IF ~Truthy(text) THEN NONE
    ELSE LET lines == SplitLines(text)
             Hit(line) == HasKeyword(Strip(line), INSTITUTION_KEYWORDS)
             hits == Filter(lines, Hit)
         IN  IF hits = <<>> THEN NONE ELSE Take(Strip(hits[1]), 100)

(***************************************************************************)
(* extract_title_from_text                                                 *)
(***************************************************************************)
\* re.search of the non-title pattern, ignoring case
MatchesNonTitle(line) ==
    \/ \E i \in 1 .. (Len(line) - 3) : \A j \in i .. (i + 3) : line[j] \in DIGITS
    \/ \E m \in NON_TITLE_MARKERS : Contains(Lower(line), m)

\* the score the candidate loop gives a line
TitleScore(line) ==
    LET words == WordCount(line)
        upper == Cardinality({i \in 1 .. Len(line) : IsUpper(line[i])})
        len   == IF Len(line) > 1 THEN Len(line) ELSE 1
    IN    (IF 15 < Len(line) /\ Len(line) < 200 THEN 2 ELSE 0)
        + (IF 4 < words /\ words < 30 THEN 2 ELSE 0)
        \* 0.2 < upper / len < 0.8
        + (IF 2 * len < 10 * upper /\ 10 * upper < 8 * len THEN 1 ELSE 0)
        + (IF HasKeyword(line, TITLE_KEYWORDS) THEN 3 ELSE 0)

\* the lines of a text, stripped, without those of at most minLen characters
MeaningfulLines(text, minLen) ==
    LET lines == SplitLines(text)
        Keep(l) == Len(Strip(l)) > minLen
        kept == Filter(lines, Keep)
    IN  [i \in 1 .. Len(kept) |-> Strip(kept[i])]

\* mutant: of the candidates of the highest score, the last is taken
FirstBestLatest(cands) ==
    CHOOSE i \in 1 .. Len(cands) :
        /\ \A j \in 1 .. Len(cands) : TitleScore(cands[j]) <= TitleScore(cands[i])
        /\ \A j \in (i + 1) .. Len(cands) : TitleScore(cands[j]) < TitleScore(cands[i])

\* mutant: the candidate of the lowest score is taken
FirstBestLowest(cands) ==
    CHOOSE i \in 1 .. Len(cands) :
        /\ \A j \in 1 .. Len(cands) : TitleScore(cands[j]) >= TitleScore(cands[i])
        /\ \A j \in 1 .. (i - 1) : TitleScore(cands[j]) > TitleScore(cands[i])

\* index of the first element of the candidate list that a stable sort by
\* descending score puts first
FirstBest(cands) ==
    CHOOSE i \in 1 .. Len(cands) :
        /\ \A j \in 1 .. Len(cands) : TitleScore(cands[j]) <= TitleScore(cands[i])
        /\ \A j \in 1 .. (i - 1) : TitleScore(cands[j]) < TitleScore(cands[i])

extract_title_from_text(text) ==
    IF ~Truthy(text) THEN NONE
    ELSE LET meaningful_lines == MeaningfulLines(text, 3)
             IsCandidate(line) ==
                 /\ ~MatchesNonTitle(line)
                 /\ WordCount(line) >= 3
                 /\ Len(line) > 10
             candidate_titles == Filter(Take(meaningful_lines, 10), IsCandidate)
             IsLong(line) == Len(line) > 15 /\ ~IsDigitStr(line)
             long == Filter(Take(meaningful_lines, 5), IsLong)
         IN  IF meaningful_lines = <<>> THEN NONE
             ELSE IF candidate_titles # <<>>
                  THEN candidate_titles[FirstBest(candidate_titles)]
             ELSE IF long # <<>> THEN long[1]
             ELSE meaningful_lines[1]

(***************************************************************************)
(* Documents.  What the two PDF libraries report for a file is input:      *)
(*   reader       outcome of PyPDF2.PdfReader(file)                        *)
(*   is_encrypted reader.is_encrypted                                      *)
(*   decrypt      outcome of reader.decrypt('')                            *)
(*   info         outcome of reading reader.metadata                       *)
(*   metadata     <<>> when reader.metadata is empty, else the values of   *)
(*                /Title, /Subject, /Topic, /Keywords ('' when absent)     *)
(*   plumber      outcome of pdfplumber.open and of its text extraction    *)
(*   pages        per page, the text of the full page and of the header,   *)
(*                content and footer boxes                                 *)
(***************************************************************************)
\* Python's None, where a status is expected
NoStatus == "None"

\* str(e) of an exception other than a PDF parse error
ErrorText == "str(e)"

TITLE_FIELDS == <<"/Title", "/Subject", "/Topic", "/Keywords">>

PLACEHOLDERS ==
    { <<>>, <<"u", "n", "t", "i", "t", "l", "e", "d">>,
      <<"u", "n", "n", "a", "m", "e", "d">>,
      <<"n", "o", " ", "t", "i", "t", "l", "e">> }

(***************************************************************************)
(* extract_title_from_metadata                                             *)
(***************************************************************************)
\* mutant: the /Title field has to pass validate_title like the others
FieldWinsValidOnly(doc, f) ==
    LET title == doc.metadata[f]
    IN  /\ Truthy(title)
        /\ Strip(title) # <<>>
        /\ Lower(Strip(title)) \notin PLACEHOLDERS
        /\ validate_title(Strip(title))

\* the test of the field loop: the value is usable and either valid or /Title
FieldWins(doc, f) ==
    LET title == doc.metadata[f]
    IN  /\ Truthy(title)
        /\ Strip(title) # <<>>
        /\ Lower(Strip(title)) \notin PLACEHOLDERS
        /\ (validate_title(Strip(title)) \/ TITLE_FIELDS[f] = "/Title")

\* mutant: the failure of reader.decrypt('') is swallowed
DecryptFailedSwallowed(doc) == FALSE

\* reader.decrypt('') raised: the document stays encrypted
DecryptFailed(doc) == doc.is_encrypted /\ doc.decrypt = "raise"

\* mutant: the last usable field wins, not the first
extract_title_from_metadata_LastField(doc) ==
    IF doc.reader = "PdfReadError" THEN [title |-> NONE, status |-> "corrupted"]
    ELSE IF doc.reader = "Exception" THEN [title |-> NONE, status |-> ErrorText]
    ELSE IF DecryptFailed(doc) THEN [title |-> NONE, status |-> "encrypted"]
    ELSE IF doc.info = "PdfReadError" THEN [title |-> NONE, status |-> "corrupted"]
    ELSE IF doc.info = "Exception" THEN [title |-> NONE, status |-> ErrorText]
    ELSE IF doc.metadata = <<>> THEN [title |-> NONE, status |-> NoStatus]
    ELSE LET wins == {f \in 1 .. Len(TITLE_FIELDS) : FieldWins(doc, f)}
         IN  IF wins = {} THEN [title |-> NONE, status |-> NoStatus]
             ELSE LET f == CHOOSE g \in wins : \A h \in wins : g >= h
                  IN  [title |-> Strip(doc.metadata[f]), status |-> NoStatus]

extract_title_from_metadata(doc) ==
    IF doc.reader = "PdfReadError" THEN [title |-> NONE, status |-> "corrupted"]
    ELSE IF doc.reader = "Exception" THEN [title |-> NONE, status |-> ErrorText]
    ELSE IF DecryptFailed(doc) THEN [title |-> NONE, status |-> "encrypted"]
    ELSE IF doc.info = "PdfReadError" THEN [title |-> NONE, status |-> "corrupted"]
    ELSE IF doc.info = "Exception" THEN [title |-> NONE, status |-> ErrorText]
    ELSE IF doc.metadata = <<>> THEN [title |-> NONE, status |-> NoStatus]
    ELSE LET wins == {f \in 1 .. Len(TITLE_FIELDS) : FieldWins(doc, f)}
         IN  IF wins = {} THEN [title |-> NONE, status |-> NoStatus]
             ELSE LET f == CHOOSE g \in wins : \A h \in wins : g <= h
                  IN  [title |-> Strip(doc.metadata[f]), status |-> NoStatus]

(***************************************************************************)
(* extract_title_from_content                                              *)
(***************************************************************************)
REGIONS == <<"full", "header", "content", "footer">>

\* region_texts after the page loop: the texts of the first pages, appended
RegionText(doc, region) ==
    LET num_pages == IF MAX_PAGES_TO_CHECK < Len(doc.pages)
                     THEN MAX_PAGES_TO_CHECK ELSE Len(doc.pages)
    IN  Concat([i \in 1 .. num_pages |-> doc.pages[i][region]])

\* mutant: the full page is tried before the content box
REGION_ORDER_FullFirst == <<"full", "content", "header", "footer">>

\* the regions in the order the function tries them
REGION_ORDER == <<"content", "full", "header", "footer">>

\* the candidate of a region, None unless it passes validate_title
RegionTitle(doc, region) ==
    LET title == extract_title_from_text(RegionText(doc, region))
    IN  IF Truthy(title) /\ validate_title(title) THEN title ELSE NONE

\* mutant: the first line is taken, whatever its length
LongestFirstLine(lines) == lines[1]

\* max(lines, key=len): the first of the longest lines
Longest(lines) ==
    lines[CHOOSE i \in 1 .. Len(lines) :
              /\ \A j \in 1 .. Len(lines) : Len(lines[j]) <= Len(lines[i])
              /\ \A j \in 1 .. (i - 1) : Len(lines[j]) < Len(lines[i])]

extract_title_from_content(doc) ==
    IF doc.plumber = "PDFSyntaxError"
    THEN [title |-> NONE, status |-> "corrupted", institution |-> NONE]
    ELSE IF doc.plumber = "Exception"
    THEN [title |-> NONE, status |-> ErrorText, institution |-> NONE]
    ELSE LET hits == {r \in 1 .. Len(REGION_ORDER) :
                         RegionTitle(doc, REGION_ORDER[r]) # NONE}
             all_lines ==
                 Concat([r \in 1 .. Len(REGIONS) |->
                            IF Truthy(RegionText(doc, REGIONS[r]))
                            THEN MeaningfulLines(RegionText(doc, REGIONS[r]), 5)
                            ELSE <<>>])
             NotDigits(line) == ~IsDigitStr(line)
             candidate_lines == Filter(Take(all_lines, 10), NotDigits)
         IN  IF hits # {}
             THEN LET r == CHOOSE g \in hits : \A h \in hits : g <= h
                  IN  [title |-> RegionTitle(doc, REGION_ORDER[r]),
                       status |-> NoStatus,
                       institution |-> extract_institution(RegionText(doc, "full"))]
             ELSE IF candidate_lines # <<>>
             THEN [title |-> Longest(candidate_lines),
                   status |-> "low_confidence",
                   institution |-> extract_institution(RegionText(doc, "full"))]
             ELSE [title |-> NONE, status |-> "no_title_found", institution |-> NONE]

(***************************************************************************)
(* extract_title.  The field calls lists the tier functions it invoked.    *)
(***************************************************************************)
\* mutant: the status of the content tier is passed on as it is
ContentStatusVerbatim(content_status) == content_status

\* the status returned along with a title of the content tier
ContentStatus(content_status) ==
    IF content_status \in {NoStatus, ""} THEN "content" ELSE content_status

\* the body of extract_title: m is what extract_title_from_metadata returns
\* and c what extract_title_from_content returns when it is called
TitleOfTiers(doc, m, c) ==
        IF m.status = "encrypted"
        THEN [title |-> NONE, status |-> "encrypted", institution |-> NONE,
              calls |-> <<"metadata">>]
        ELSE IF m.status = "corrupted"
        THEN [title |-> NONE, status |-> "corrupted", institution |-> NONE,
              calls |-> <<"metadata">>]
        ELSE IF Truthy(m.title)
        THEN [title |-> m.title, status |-> "metadata",
              institution |->
                  IF doc.plumber = "ok" /\ doc.pages # <<>>
                  THEN extract_institution(doc.pages[1].full) ELSE NONE,
              calls |-> <<"metadata">>]
        ELSE IF Truthy(c.title)
        THEN [title |-> c.title,
              status |-> ContentStatus(c.status),
              institution |-> c.institution,
              calls |-> <<"metadata", "content">>]
        ELSE [title |-> NONE, status |-> "extraction_failed", institution |-> NONE,
              calls |-> <<"metadata", "content">>]

extract_title(doc) ==
    TitleOfTiers(doc, extract_title_from_metadata(doc), extract_title_from_content(doc))

(***************************************************************************)
(* File names                                                              *)
(***************************************************************************)
PDF_EXT == <<".", "p", "d", "f">>

\* DEFAULT_NAME_FORMAT "未识别文件_{timestamp}", up to the timestamp
DEFAULT_NAME_PREFIX == <<"u672a", "u8bc6", "u522b", "u6587", "u4ef6", "_">>

\* the title "未知标题" of a file without one
UNKNOWN_TITLE == <<"u672a", "u77e5", "u6807", "u9898">>

\* s.startswith(prefix)
StartsWith(s, prefix) ==
    Len(prefix) <= Len(s) /\ SubSeq(s, 1, Len(prefix)) = prefix

\* s.endswith(suffix)
EndsWith(s, suffix) ==
    Len(suffix) <= Len(s) /\ SubSeq(s, Len(s) - Len(suffix) + 1, Len(s)) = suffix

\* s.rfind(ch) counted from 1: the last index of ch in s, 0 if there is none
LastIndexOf(s, ch) ==
    IF \A i \in 1 .. Len(s) : s[i] # ch THEN 0
    ELSE CHOOSE i \in 1 .. Len(s) :
             s[i] = ch /\ \A j \in (i + 1) .. Len(s) : s[j] # ch

\* os.path.splitext on a name without directory part: the extension starts
\* at the last period, unless only periods precede it
splitext(name) ==
    LET dot == LastIndexOf(name, ".")
    IN  IF dot = 0 \/ \A i \in 1 .. (dot - 1) : name[i] = "."
        THEN <<name, <<>> >>
        ELSE <<SubSeq(name, 1, dot - 1), SubSeq(name, dot, Len(name))>>

\* str(n) for n >= 0
RECURSIVE IntToStr(_)
IntToStr(n) ==
    LET digit == <<"0", "1", "2", "3", "4", "5", "6", "7", "8", "9">>[(n % 10) + 1]
    IN  IF n < 10 THEN <<digit>> ELSE IntToStr(n \div 10) \o <<digit>>

\* s.strip('_')
StripUnderscores(s) ==
    LET keep == {i \in 1 .. Len(s) : s[i] # "_"}
    IN  IF keep = {} THEN <<>>
        ELSE SubSeq(s, CHOOSE i \in keep : \A j \in keep : i <= j,
                       CHOOSE i \in keep : \A j \in keep : j <= i)

\* the test of the loop over Config.SKIP_PATTERNS: re.match of
\* r'^\.', r'^~\$', r'^Thumbs\.db$', r'^desktop\.ini$'
MatchesSkipPattern(item) ==
    \/ StartsWith(item, <<".">>)
    \/ StartsWith(item, <<"~", "$">>)
    \/ item = <<"T", "h", "u", "m", "b", "s", ".", "d", "b">>
    \/ item = <<"d", "e", "s", "k", "t", "o", "p", ".", "i", "n", "i">>

\* mutant: the extension is compared as it is written
IsPdfNameCaseSensitive(item) == EndsWith(item, PDF_EXT)

\* item.lower().endswith('.pdf')
IsPdfName(item) == EndsWith(Lower(item), PDF_EXT)

(***************************************************************************)
(* generate_paper_filename, generate_default_filename                      *)
(***************************************************************************)
\* (the string of each step is bound to a name, so that it is computed once)
generate_paper_filename(title) ==
    CHOOSE out \in
        {StripUnderscores(filename) \o PDF_EXT :
            filename \in {IF Len(cleaned_title) > MAX_TITLE_LENGTH - 4
                          THEN Take(cleaned_title, MAX_TITLE_LENGTH - 4)
                          ELSE cleaned_title :
            cleaned_title \in {sanitize_filename(Strip(t)) :
            t \in {IF ~Truthy(title) \/ Strip(title) = <<>>
                   THEN UNKNOWN_TITLE ELSE title}}}} : TRUE

generate_default_filename(timestamp) ==
    DEFAULT_NAME_PREFIX \o timestamp \o PDF_EXT

\* processing_time.strftime("%Y%m%d_%H%M%S") at the clock value t
StampCompact(t) ==
    <<"2", "0", "2", "6", "0", "1", "0", "1", "_", "0", "0", "0", "0", "0">>
        \o IntToStr(t)

\* processing_time.strftime("%Y-%m-%d %H:%M:%S") at the clock value t
StampLong(t) ==
    <<"2", "0", "2", "6", "-", "0", "1", "-", "0", "1", " ", "0", "0", ":",
      "0", "0", ":", "0">> \o IntToStr(t)

(***************************************************************************)
(* rename_pdfs: the pieces of process_directory                            *)
(***************************************************************************)
\* os.path.join(directory, name) with the separator of POSIX: a name that
\* starts with the separator replaces the directory
join(directory, name) ==
    IF name # <<>> /\ Head(name) = "/" THEN name
    ELSE IF directory = <<>> \/ directory[Len(directory)] = "/"
    THEN directory \o name
    ELSE directory \o <<"/">> \o name

\* os.path.dirname(path): what precedes the last separator, without the
\* separators it ends with (unless it holds nothing else)
dirname(path) ==
    LET head == SubSeq(path, 1, LastIndexOf(path, "/"))
        cut == CHOOSE n \in 0 .. Len(head) :
                   /\ \A i \in (n + 1) .. Len(head) : head[i] = "/"
                   /\ n > 0 => head[n] # "/"
    IN  IF cut = 0 THEN head ELSE SubSeq(head, 1, cut)

\* os.path.basename(path): what follows the last separator
basename(path) == Drop(path, LastIndexOf(path, "/"))

\* root_folder
ROOT == <<"r">>

\* the name of the one subdirectory a root folder may have
SUB_NAME == <<"s", "u", "b">>

\* item_path of that subdirectory
SUB == join(ROOT, SUB_NAME)

STAT_NAMES ==
    {"total_files", "pdf_files", "renamed_files", "failed_files",
     "skipped_files", "encrypted_files", "corrupted_files"}

\* stats[counter] += 1 for every counter of the sequence
RECURSIVE Bump(_, _)
Bump(st, counters) ==
    IF counters = <<>> THEN st
    ELSE Bump([st EXCEPT ![Head(counters)] = @ + 1], Tail(counters))

\* global_title_counts[name] of the defaultdict(int)
CountOf(counts, name) == IF name \in DOMAIN counts THEN counts[name] ELSE 0

\* global_title_counts after "global_title_counts[name] += 1"
Counted(counts, name) ==
    [n \in DOMAIN counts \cup {name} |-> CountOf(counts, n) + (IF n = name THEN 1 ELSE 0)]

\* mutant: no path is found to exist
PathExistsNever(files, sub, path) == FALSE

\* os.path.exists(path), for a path below the root folder
PathExists(files, sub, path) ==
    \/ \E f \in files : join(f.dir, f.name) = path
    \/ sub /\ path = SUB

\* file_info as initialised for a PDF (the fields author, year, keywords and
\* timestamp, which the function never reads, are left out)
InitialFileInfo(item, directory) ==
    [original_filename |-> item, original_path |-> directory,
     extracted_title |-> NONE, institution |-> NONE, new_filename |-> item,
     status |-> "skipped", error_message |-> NONE,
     title |-> NONE]

\* mutant: an encrypted or corrupted file is named like any file without a
\* title
UntitledOutcomeAlwaysNamed(item, status, custom, t) ==
    LET base_name ==
            IF Truthy(custom)
            THEN sanitize_filename(custom \o <<"_">> \o StampLong(t))
            ELSE generate_default_filename(StampCompact(t))
    IN  [new_filename |-> base_name \o PDF_EXT, status |-> "default_named",
         counters |-> <<"failed_files">>]

\* the branch "if not title": what a file without a title gets.  counters
\* lists the statistics the branch increments.
UntitledOutcome(item, status, custom, t) ==
    IF status = "encrypted"
    THEN [new_filename |-> item, status |-> "encrypted",
          counters |-> <<"encrypted_files">>]
    ELSE IF status = "corrupted"
    THEN [new_filename |-> item, status |-> "corrupted",
          counters |-> <<"corrupted_files">>]
    ELSE LET base_name ==
                 IF Truthy(custom)
                 THEN sanitize_filename(custom \o <<"_">> \o StampLong(t))
                 ELSE generate_default_filename(StampCompact(t))
         IN  [new_filename |-> base_name \o PDF_EXT, status |-> "default_named",
              counters |-> <<"failed_files">>]

\* mutant: the suffix is the count itself
DedupNameFromCount(new_filename, n) ==
    IF n > 1
    THEN LET base_name == splitext(new_filename)[1]
             ext == splitext(new_filename)[2]
         IN  base_name \o <<"_">> \o IntToStr(n) \o ext
    ELSE new_filename

\* the name of the n-th file (n >= 1) with the generated name new_filename
DedupName(new_filename, n) ==
    IF n > 1
    THEN LET base_name == splitext(new_filename)[1]
             ext == splitext(new_filename)[2]
         IN  base_name \o <<"_">> \o IntToStr(n - 1) \o ext
    ELSE new_filename

\* the record status of a file with a title
TitledStatus(status) ==
    IF status \in {"metadata", "content"} THEN "success" ELSE status

\* one pass of the body of "while os.path.exists(new_file_path)": the next
\* name to try
CollisionName(original_new_filename, counter) ==
    LET name == splitext(original_new_filename)[1]
        ext == splitext(original_new_filename)[2]
        dash == LastIndexOf(name, "-")
        stem == IF dash > 0 /\ IsDigitStr(Drop(name, dash))
                THEN SubSeq(name, 1, dash - 1) ELSE name
    IN  stem \o <<"_">> \o IntToStr(counter) \o ext

\* mutant: the loop forgets to count
NextCounterStuck(counter) == counter

\* counter after one pass of the loop
NextCounter(counter) == counter + 1

\* mutant: the failure of the move leaves no mark on the record
RenameFailedUnmarked(file_info) == file_info

\* file_info after shutil.move raised
RenameFailed(file_info) ==
    [file_info EXCEPT !.status = "rename_failed", !.error_message = RENAME_ERROR]

\* file_info after another exception in the processing of the file
ProcessingFailed(file_info) ==
    [file_info EXCEPT !.status = "processing_error",
                      !.error_message = PROCESSING_ERROR]

\* mutant: a run that found no PDF fails
ExitCodeFailsWithoutPdf(st) == IF st.pdf_files = 0 THEN 1 ELSE 0

\* what main returns after rename_pdfs returned
ExitCode(st) == 0

(***************************************************************************)
(* Specification SpecSan: sanitize_filename applied to a bounded family of *)
(* raw names: a run of letters (empty, or about MAX_TITLE_LENGTH long)     *)
(* followed by a short free suffix.                                        *)
(***************************************************************************)
SanAlphabet == {"a", " ", ".", ":", "\"", "_"}

Pad(n) == [i \in 1 .. n |-> "a"]

PadLens == {0} \cup ((MAX_TITLE_LENGTH - MaxTail) .. MAX_TITLE_LENGTH)

Tails == UNION {[1 .. n -> SanAlphabet] : n \in 0 .. MaxTail}

SanInputs == {Pad(n) \o t : n \in PadLens, t \in Tails}

\* the variables of sanitize_filename, in the runs of the other specifications
SanOff == sanIn = <<>> /\ sanOut = <<>> /\ sanPc = "off"

InitSan ==
    /\ sanIn \in SanInputs
    /\ sanOut = <<>>
    /\ sanPc = "in"
    /\ ExOff
    /\ ScOff
    /\ BatchOff
    /\ RepOff

Sanitize ==
    /\ sanPc = "in"
    /\ sanOut' = sanitize_filename(sanIn)
    /\ sanPc' = "out"
    /\ UNCHANGED <<sanIn, exVars, scVars, repVars, batchVars>>

NextSan == Sanitize

SpecSan == InitSan /\ [][NextSan]_vars

(***************************************************************************)
(* Specification SpecText: extract_title_from_text applied to a bounded    *)
(* family of region texts: some filler lines (none, or enough to push the  *)
(* lines that follow to the end of the first 5 or of the first 10)         *)
(* followed by at most MaxLines lines of a pool.                           *)
(***************************************************************************)
\* "A Robust Method for Federated Unlearning via Bloom Filters"
L_ROBUST ==
    << "A", " ", "R", "o", "b", "u", "s", "t", " ", "M", "e", "t", "h", "o",
       "d", " ", "f", "o", "r", " ", "F", "e", "d", "e", "r", "a", "t", "e",
       "d", " ", "U", "n", "l", "e", "a", "r", "n", "i", "n", "g", " ", "v",
       "i", "a", " ", "B", "l", "o", "o", "m", " ", "F", "i", "l", "t", "e",
       "r", "s" >>

\* "Graph Neural Networks for Chemistry"
L_GRAPH ==
    << "G", "r", "a", "p", "h", " ", "N", "e", "u", "r", "a", "l", " ", "N",
       "e", "t", "w", "o", "r", "k", "s", " ", "f", "o", "r", " ", "C", "h",
       "e", "m", "i", "s", "t", "r", "y" >>

\* "Tensor Neural Networks for Biology"
L_TENSOR ==
    << "T", "e", "n", "s", "o", "r", " ", "N", "e", "u", "r", "a", "l", " ",
       "N", "e", "t", "w", "o", "r", "k", "s", " ", "f", "o", "r", " ", "B",
       "i", "o", "l", "o", "g", "y" >>

\* "aaa bbb ccc"
L_PLAIN ==
    << "a", "a", "a", " ", "b", "b", "b", " ", "c", "c", "c" >>

\* "ABC DEF ghi"
L_UPPER ==
    << "A", "B", "C", " ", "D", "E", "F", " ", "g", "h", "i" >>

\* "Model Theory"
L_KEY ==
    << "M", "o", "d", "e", "l", " ", "T", "h", "e", "o", "r", "y" >>

\* "A Study of Graph Models et al"
L_MARK ==
    << "A", " ", "S", "t", "u", "d", "y", " ", "o", "f", " ", "G", "r", "a",
       "p", "h", " ", "M", "o", "d", "e", "l", "s", " ", "e", "t", " ", "a",
       "l" >>

\* "Supplementary material"
L_LONG ==
    << "S", "u", "p", "p", "l", "e", "m", "e", "n", "t", "a", "r", "y", " ",
       "m", "a", "t", "e", "r", "i", "a", "l" >>

\* "12345678901234567890"
L_NUM ==
    << "1", "2", "3", "4", "5", "6", "7", "8", "9", "0", "1", "2", "3", "4",
       "5", "6", "7", "8", "9", "0" >>

\* "Draft"
L_DRAFT ==
    << "D", "r", "a", "f", "t" >>

\* "ab"
L_TINY ==
    << "a", "b" >>

LinePool ==
    {L_ROBUST, L_GRAPH, L_TENSOR, L_PLAIN, L_UPPER, L_KEY, L_MARK, L_LONG, L_NUM,
     L_TINY}

\* the numbers of filler lines
FillerCounts == {0, 4, 8, 9}

\* '\n'.join(lines)
RECURSIVE JoinLines(_)
JoinLines(lines) ==
    IF lines = <<>> THEN <<>>
    ELSE IF Len(lines) = 1 THEN lines[1]
    ELSE lines[1] \o <<"\n">> \o JoinLines(Tail(lines))

TextInputs ==
    {JoinLines([i \in 1 .. n |-> L_DRAFT] \o free) :
         n \in FillerCounts,
         free \in UNION {[1 .. k -> LinePool] : k \in 0 .. MaxLines}}

InitText ==
    /\ scIn \in TextInputs
    /\ scOut = <<>>
    /\ scPc = "in"
    /\ SanOff
    /\ ExOff
    /\ BatchOff
    /\ RepOff

ExtractTitleFromText ==
    /\ scPc = "in"
    /\ scOut' = extract_title_from_text(scIn)
    /\ scPc' = "out"
    /\ UNCHANGED <<scIn, sanVars, exVars, repVars, batchVars>>

NextText == ExtractTitleFromText

SpecText == InitText /\ [][NextText]_vars

(***************************************************************************)
(* Texts of the documents                                                  *)
(***************************************************************************)
\* "  Deep Learning for X  "
T_DEEP ==
    << " ", " ", "D", "e", "e", "p", " ", "L", "e", "a", "r", "n", "i", "n",
       "g", " ", "f", "o", "r", " ", "X", " ", " " >>

\* "A"
T_SHORT ==
    << "A" >>

\* a title of MAX_TITLE_LENGTH letters
T_LONG == Pad(MAX_TITLE_LENGTH)

\* "B"
T_OTHER ==
    << "B" >>

\* "_"
T_USCORE == <<"_">>

\* "Untitled"
T_UNTITLED ==
    << "U", "n", "t", "i", "t", "l", "e", "d" >>

\* "   "
T_BLANK ==
    << " ", " ", " " >>

\* "Notes"
S_NOTES ==
    << "N", "o", "t", "e", "s" >>

\* "A Study of Graphs"
S_STUDY ==
    << "A", " ", "S", "t", "u", "d", "y", " ", "o", "f", " ", "G", "r", "a",
       "p", "h", "s" >>

\* "Model"
K_MODEL ==
    << "M", "o", "d", "e", "l" >>

\* "Journal of Things vol. 3\nPreprint\nDraft\nA Robust Method for Federated Unlearning via Bloom Filters\nAlice Smith\nUniversity of Somewhere\n12"
TXT_GOOD_FULL ==
    << "J", "o", "u", "r", "n", "a", "l", " ", "o", "f", " ", "T", "h", "i",
       "n", "g", "s", " ", "v", "o", "l", ".", " ", "3", "\n", "P", "r", "e",
       "p", "r", "i", "n", "t", "\n", "D", "r", "a", "f", "t", "\n", "A",
       " ", "R", "o", "b", "u", "s", "t", " ", "M", "e", "t", "h", "o", "d",
       " ", "f", "o", "r", " ", "F", "e", "d", "e", "r", "a", "t", "e", "d",
       " ", "U", "n", "l", "e", "a", "r", "n", "i", "n", "g", " ", "v", "i",
       "a", " ", "B", "l", "o", "o", "m", " ", "F", "i", "l", "t", "e", "r",
       "s", "\n", "A", "l", "i", "c", "e", " ", "S", "m", "i", "t", "h",
       "\n", "U", "n", "i", "v", "e", "r", "s", "i", "t", "y", " ", "o", "f",
       " ", "S", "o", "m", "e", "w", "h", "e", "r", "e", "\n", "1", "2" >>

\* "Journal of Things vol. 3"
TXT_GOOD_HEADER ==
    << "J", "o", "u", "r", "n", "a", "l", " ", "o", "f", " ", "T", "h", "i",
       "n", "g", "s", " ", "v", "o", "l", ".", " ", "3" >>

\* "Preprint\nDraft\nA Robust Method for Federated Unlearning via Bloom Filters\nAlice Smith\nUniversity of Somewhere"
TXT_GOOD_CONTENT ==
    << "P", "r", "e", "p", "r", "i", "n", "t", "\n", "D", "r", "a", "f", "t",
       "\n", "A", " ", "R", "o", "b", "u", "s", "t", " ", "M", "e", "t", "h",
       "o", "d", " ", "f", "o", "r", " ", "F", "e", "d", "e", "r", "a", "t",
       "e", "d", " ", "U", "n", "l", "e", "a", "r", "n", "i", "n", "g", " ",
       "v", "i", "a", " ", "B", "l", "o", "o", "m", " ", "F", "i", "l", "t",
       "e", "r", "s", "\n", "A", "l", "i", "c", "e", " ", "S", "m", "i", "t",
       "h", "\n", "U", "n", "i", "v", "e", "r", "s", "i", "t", "y", " ", "o",
       "f", " ", "S", "o", "m", "e", "w", "h", "e", "r", "e" >>

\* "12"
TXT_FOOTER ==
    << "1", "2" >>

\* "Short\n"
TXT_SHORT ==
    << "S", "h", "o", "r", "t", "\n" >>

\* "Graph Neural Networks for Chemistry"
TXT_HEAD_TITLE ==
    << "G", "r", "a", "p", "h", " ", "N", "e", "u", "r", "a", "l", " ", "N",
       "e", "t", "w", "o", "r", "k", "s", " ", "f", "o", "r", " ", "C", "h",
       "e", "m", "i", "s", "t", "r", "y" >>

\* "Lecture notes"
TXT_NOTES ==
    << "L", "e", "c", "t", "u", "r", "e", " ", "n", "o", "t", "e", "s" >>

\* "Lecture notes\n12345678\n"
TXT_NOTES_FULL ==
    << "L", "e", "c", "t", "u", "r", "e", " ", "n", "o", "t", "e", "s", "\n",
       "1", "2", "3", "4", "5", "6", "7", "8", "\n" >>

\* "12345678"
TXT_NUMBER ==
    << "1", "2", "3", "4", "5", "6", "7", "8" >>

\* "Lecture notes\nSupplementary material"
TXT_LOW ==
    << "L", "e", "c", "t", "u", "r", "e", " ", "n", "o", "t", "e", "s", "\n",
       "S", "u", "p", "p", "l", "e", "m", "e", "n", "t", "a", "r", "y", " ",
       "m", "a", "t", "e", "r", "i", "a", "l" >>

\* "Lecture notes\nSupplementary material\n12345678"
TXT_LOW_FULL ==
    << "L", "e", "c", "t", "u", "r", "e", " ", "n", "o", "t", "e", "s", "\n",
       "S", "u", "p", "p", "l", "e", "m", "e", "n", "t", "a", "r", "y", " ",
       "m", "a", "t", "e", "r", "i", "a", "l", "\n", "1", "2", "3", "4", "5",
       "6", "7", "8" >>

\* "Item 01\nItem 02\n ... Item 10\nSupplementary material"
TXT_MANY ==
    << "I", "t", "e", "m", " ", "0", "1", "\n", "I", "t", "e", "m", " ", "0",
       "2", "\n", "I", "t", "e", "m", " ", "0", "3", "\n", "I", "t", "e",
       "m", " ", "0", "4", "\n", "I", "t", "e", "m", " ", "0", "5", "\n",
       "I", "t", "e", "m", " ", "0", "6", "\n", "I", "t", "e", "m", " ", "0",
       "7", "\n", "I", "t", "e", "m", " ", "0", "8", "\n", "I", "t", "e",
       "m", " ", "0", "9", "\n", "I", "t", "e", "m", " ", "1", "0", "\n",
       "S", "u", "p", "p", "l", "e", "m", "e", "n", "t", "a", "r", "y", " ",
       "m", "a", "t", "e", "r", "i", "a", "l" >>

K_THEORY ==
    << "g", "r", "a", "p", "h", " ", "t", "h", "e", "o", "r", "y" >>

(***************************************************************************)
(* Specification SpecExtract: extract_title applied to a bounded family of *)
(* documents.                                                              *)
(***************************************************************************)
Outcomes == {"ok", "PdfReadError", "Exception"}

PlumberOutcomes == {"ok", "PDFSyntaxError", "Exception"}

MetaPool ==
    {<<>>} \cup
    {<<t, s, pk[1], pk[2]>> :
         t \in {<<>>, T_BLANK, T_UNTITLED, T_SHORT, T_DEEP},
         s \in {<<>>, S_NOTES, S_STUDY},
         pk \in {<< <<>>, <<>> >>, <<K_MODEL, <<>> >>, << <<>>, K_THEORY>>}}

PAGE_GOOD ==
    [full |-> TXT_GOOD_FULL, header |-> TXT_GOOD_HEADER,
     content |-> TXT_GOOD_CONTENT, footer |-> TXT_FOOTER]

\* a page whose content box shows another title than the top of the page
PAGE_TWO ==
    [full |-> TXT_GOOD_FULL, header |-> TXT_GOOD_HEADER,
     content |-> TXT_HEAD_TITLE, footer |-> TXT_FOOTER]

\* a page without a line that validate_title accepts
PAGE_LOW ==
    [full |-> TXT_LOW_FULL, header |-> <<>>, content |-> TXT_LOW,
     footer |-> TXT_NUMBER]

\* a page whose longest line is the eleventh of the full page
PAGE_MANY ==
    [full |-> TXT_MANY, header |-> <<>>, content |-> <<>>, footer |-> <<>>]

\* a page whose content box gives a line of three words that is too short,
\* and whose full page gives a short line with a title keyword
PAGE_EDGE ==
    [full |-> L_KEY, header |-> <<>>, content |-> L_PLAIN, footer |-> <<>>]

PAGE_HEADER ==
    [full |-> TXT_SHORT, header |-> TXT_HEAD_TITLE, content |-> <<>>, footer |-> <<>>]

PAGE_NOTES ==
    [full |-> TXT_NOTES_FULL, header |-> <<>>, content |-> TXT_NOTES,
     footer |-> TXT_NUMBER]

PAGE_EMPTY == [full |-> <<>>, header |-> <<>>, content |-> <<>>, footer |-> <<>>]

PagesPool ==
    { <<>>, <<PAGE_GOOD>>, <<PAGE_TWO>>, <<PAGE_HEADER>>, <<PAGE_NOTES>>,
      <<PAGE_LOW>>, <<PAGE_MANY>>, <<PAGE_EDGE>>, <<PAGE_EMPTY>>,
      <<PAGE_NOTES, PAGE_GOOD>>,
      <<PAGE_EMPTY, PAGE_EMPTY, PAGE_EMPTY, PAGE_GOOD>> }

\* a field the program never reads for a document has one value only
DocPool ==
    {d \in [reader : Outcomes, is_encrypted : BOOLEAN, decrypt : {"ok", "raise"},
            info : Outcomes, metadata : MetaPool, plumber : PlumberOutcomes,
            pages : PagesPool] :
        /\ d.reader # "ok" => ~d.is_encrypted /\ d.info = "ok"
        /\ ~d.is_encrypted => d.decrypt = "ok"
        /\ d.info # "ok" => d.metadata = <<>>
        /\ d.reader # "ok" => d.metadata = <<>>
        /\ d.plumber # "ok" => d.pages = <<>>}

NoResult ==
    [title |-> NONE, status |-> NoStatus, institution |-> NONE, calls |-> <<>>]

InitExtract ==
    /\ exDoc \in DocPool
    /\ exResult = NoResult
    /\ exPc = "call"
    /\ SanOff
    /\ ScOff
    /\ BatchOff
    /\ RepOff

ExtractTitle ==
    /\ exPc = "call"
    /\ exResult' = extract_title(exDoc)
    /\ exPc' = "returned"
    /\ UNCHANGED <<exDoc, sanVars, scVars, repVars, batchVars>>

NextExtract == ExtractTitle

SpecExtract == InitExtract /\ [][NextExtract]_vars

(***************************************************************************)
(* The documents of the files of a batch run                               *)
(***************************************************************************)
\* a readable document without metadata and without text
DOC_BLANK ==
    [reader |-> "ok", is_encrypted |-> FALSE, decrypt |-> "ok", info |-> "ok",
     metadata |-> <<>>, plumber |-> "ok", pages |-> <<PAGE_EMPTY>>]

\* a readable document with the metadata title t
DocTitled(t) == [DOC_BLANK EXCEPT !.metadata = <<t, <<>>, <<>>, <<>> >>]

\* an encrypted document the empty password does not open
DOC_ENCRYPTED == [DOC_BLANK EXCEPT !.is_encrypted = TRUE, !.decrypt = "raise"]

\* a document PdfReader rejects
DOC_CORRUPTED == [DOC_BLANK EXCEPT !.reader = "PdfReadError"]

\* the documents of the files of a batch run
BatchDocs ==
    {DocTitled(T_SHORT), DocTitled(T_USCORE), DocTitled(T_LONG), DOC_BLANK,
     DOC_ENCRYPTED, DOC_CORRUPTED}

\* extract_title on the documents of a batch run, computed once
ExtractedTitle == [doc \in BatchDocs |-> extract_title(doc)]

\* generate_paper_filename on the titles of these documents, computed once
GeneratedName ==
    [title \in {ExtractedTitle[doc].title : doc \in BatchDocs} |->
        generate_paper_filename(title)]

(***************************************************************************)
(* main and rename_pdfs as a state machine                                 *)
(*                                                                         *)
(*   pc = "main"       main is about to call rename_pdfs                   *)
(*   pc = "walk"       inside process_directory, between two entries       *)
(*   pc = "collision"  at the test of "while os.path.exists(...)"          *)
(*   pc = "report"     process_directory(root_folder) has returned         *)
(*   pc = "returned"   rename_pdfs has returned                            *)
(*   pc = "exit"       main has returned exit_code                         *)
(***************************************************************************)
NoStats == [n \in STAT_NAMES |-> 0]

NoNote == [result |-> "None", generated |-> NONE, nth |-> 0]

NoCur ==
    [file_info |-> InitialFileInfo(<<>>, ROOT), new_filename |-> <<>>,
     new_file_path |-> <<>>, original_new_filename |-> <<>>, counter |-> 0,
     note |-> NoNote]

\* the frame of the running call of process_directory
Top == stack[Len(stack)]

\* the stack after the running call has moved on to its next entry
Advanced == [stack EXCEPT ![Len(stack)].i = @ + 1]

\* the names os.listdir(directory) returns
Entries(directory) ==
    {f.name : f \in {g \in fs : g.dir = directory}}
        \cup (IF directory = ROOT /\ hasSub THEN {SUB_NAME} ELSE {})

\* the orders os.listdir may return a set of names in
Listings(names) ==
    {l \in [1 .. Cardinality(names) -> names] :
        \A i, j \in 1 .. Cardinality(names) : l[i] = l[j] => i = j}

\* mutant: a file whose move raised leaves no record
RecordedUnlessFailed(file_info, note, loops, moved) ==
    IF moved = "failed" THEN UNCHANGED <<excel_data, trace>>
    ELSE /\ excel_data' = Append(excel_data, file_info)
         /\ trace' = Append(trace, [result |-> note.result, generated |-> note.generated,
                                    nth |-> note.nth, loops |-> loops, moved |-> moved])

\* excel_data.append(file_info), with the history entry of the file
Recorded(file_info, note, loops, moved) ==
    /\ excel_data' = Append(excel_data, file_info)
    /\ trace' = Append(trace, [result |-> note.result, generated |-> note.generated,
                               nth |-> note.nth, loops |-> loops, moved |-> moved])

\* one more call raises
Fault ==
    /\ faults < MaxFaults
    /\ faults' = faults + 1

\* main calls rename_pdfs: a missing root folder makes it return at once
Start ==
    /\ pc = "main"
    /\ IF rootExists
       THEN /\ pc' = "walk"
            /\ stack' = <<[directory |-> ROOT, listing |-> <<>>, i |-> 0]>>
       ELSE /\ pc' = "returned"
            /\ UNCHANGED stack
    /\ UNCHANGED <<fs, stats, global_title_counts, excel_data, trace, cur,
                   summary, exit_code, listed, faults, interrupts, runs, envVars>>

\* process_directory starts: os.listdir returns the entries in some order,
\* or raises, which ends the call
EnterDirectory ==
    /\ pc = "walk"
    /\ Top.i = 0
    /\ \/ /\ \E l \in Listings(Entries(Top.directory)) :
                 stack' = [stack EXCEPT ![Len(stack)].listing = l,
                                        ![Len(stack)].i = 1]
          /\ listed' = listed \cup {[dir |-> Top.directory, name |-> n] :
                                        n \in Entries(Top.directory)}
          /\ UNCHANGED faults
       \/ /\ Fault
          /\ stack' = [stack EXCEPT ![Len(stack)].listing = <<>>,
                                    ![Len(stack)].i = 1]
          /\ UNCHANGED listed
    /\ UNCHANGED <<pc, fs, stats, global_title_counts, excel_data, trace, cur,
                   summary, exit_code, interrupts, runs, envVars>>

\* the entry is a subfolder and the walk is recursive
DescendDirectory ==
    /\ pc = "walk"
    /\ Top.i >= 1 /\ Top.i <= Len(Top.listing)
    /\ Top.directory = ROOT /\ Top.listing[Top.i] = SUB_NAME /\ hasSub
    /\ recursive
    /\ stack' = Append(Advanced, [directory |-> SUB, listing |-> <<>>, i |-> 0])
    /\ UNCHANGED <<pc, fs, stats, global_title_counts, excel_data, trace, cur,
                   summary, exit_code, listed, faults, interrupts, runs, envVars>>

\* the entry is no regular file
SkipNonFile ==
    /\ pc = "walk"
    /\ Top.i >= 1 /\ Top.i <= Len(Top.listing)
    /\ Top.directory = ROOT /\ Top.listing[Top.i] = SUB_NAME /\ hasSub
    /\ ~recursive
    /\ stack' = Advanced
    /\ UNCHANGED <<pc, fs, stats, global_title_counts, excel_data, trace, cur,
                   summary, exit_code, listed, faults, interrupts, runs, envVars>>

\* the entry is a regular file of the running directory
AtFile ==
    /\ pc = "walk"
    /\ Top.i >= 1 /\ Top.i <= Len(Top.listing)
    /\ \E f \in fs : f.dir = Top.directory /\ f.name = Top.listing[Top.i]

\* the file matches a skip pattern or is no PDF
SkipFile ==
    /\ AtFile
    /\ MatchesSkipPattern(Top.listing[Top.i]) \/ ~IsPdfName(Top.listing[Top.i])
    /\ stats' = Bump(stats, <<"total_files", "skipped_files">>)
    /\ stack' = Advanced
    /\ UNCHANGED <<pc, fs, global_title_counts, excel_data, trace, cur,
                   summary, exit_code, listed, faults, interrupts, runs, envVars>>

\* file_info once the name of the file is chosen: out is the outcome of the
\* branch "if not title", generated the generated name, nth its count
Named(item, directory, result, out, generated, nth) ==
    LET file_info == [InitialFileInfo(item, directory)
                          EXCEPT !.extracted_title = result.title,
                                 !.institution = result.institution]
    IN  IF ~Truthy(result.title)
        THEN [file_info EXCEPT !.new_filename = out.new_filename,
                               !.status = out.status]
        ELSE [file_info EXCEPT !.title = Take(generated, Len(generated) - 4),
                               !.new_filename = DedupName(generated, nth),
                               !.status = TitledStatus(result.status)]

\* history entry of the file: what extract_title said, the generated name
\* and its count
Note(result, generated, nth) ==
    IF Truthy(result.title)
    THEN [result |-> result.status, generated |-> generated, nth |-> nth]
    ELSE [result |-> result.status, generated |-> NONE, nth |-> 0]

\* the counters and the title counts are updated; the file keeps its name,
\* which ends the iteration, or heads for the collision loop
NameChosen(item, titled, out, generated, named, note) ==
    /\ stats' = Bump(stats, <<"total_files", "pdf_files">> \o
                            (IF titled THEN <<>> ELSE out.counters))
    /\ global_title_counts' =
           IF titled THEN Counted(global_title_counts, generated)
           ELSE global_title_counts
    /\ IF named.new_filename = item
       THEN /\ Recorded(named, note, 0, "none")
            /\ stack' = Advanced
            /\ UNCHANGED <<pc, cur>>
       ELSE /\ pc' = "collision"
            /\ cur' = [file_info |-> named,
                       new_filename |-> named.new_filename,
                       new_file_path |-> join(Top.directory, named.new_filename),
                       original_new_filename |-> named.new_filename,
                       counter |-> 1,
                       note |-> note]
            /\ UNCHANGED <<stack, excel_data, trace>>

\* the seconds the processing of a file may start in, where the name of the
\* file depends on it
ClockValues(result) ==
    IF ~Truthy(result.title) /\ result.status \notin {"encrypted", "corrupted"}
    THEN 1 .. MaxClock ELSE {1}

\* lines 586 to 645 for the result of extract_title
Extracted(item, directory, result, out, generated) ==
    \E nth \in {CountOf(global_title_counts, generated) + 1} :
        \E named \in {Named(item, directory, result, out, generated, nth)},
           note \in {Note(result, generated, nth)} :
            NameChosen(item, Truthy(result.title), out, generated, named, note)

\* the branch "if not title" was not taken
NoOutcome == [new_filename |-> NONE, status |-> "None", counters |-> <<>>]

\* lines 580 to 645 at the second t, with the result of extract_title: the
\* branch "if not title" or the branch of a title
Processed(item, directory, result, t) ==
    /\ t \in ClockValues(result)
    /\ \E out \in {IF Truthy(result.title) THEN NoOutcome
                     ELSE UntitledOutcome(item, result.status,
                                          custom_unknown_name, t)},
          generated \in {IF Truthy(result.title)
                         THEN GeneratedName[result.title] ELSE NONE} :
           Extracted(item, directory, result, out, generated)

\* a PDF: from "stats['pdf_files'] += 1" to the test of the collision loop,
\* or to the end of the iteration when the file keeps its name
ProcessPdf ==
    /\ AtFile
    /\ ~MatchesSkipPattern(Top.listing[Top.i]) /\ IsPdfName(Top.listing[Top.i])
    /\ \E f \in fs, t \in 1 .. MaxClock :
          /\ f.dir = Top.directory /\ f.name = Top.listing[Top.i]
          /\ \E result \in {ExtractedTitle[f.doc]} :
                 Processed(f.name, f.dir, result, t)
    /\ UNCHANGED <<fs, summary, exit_code, listed, faults, interrupts, runs, envVars>>

\* a PDF whose processing raises before a name is chosen: the handler of
\* "except Exception" completes the record
ProcessPdfRaises ==
    /\ AtFile
    /\ ~MatchesSkipPattern(Top.listing[Top.i]) /\ IsPdfName(Top.listing[Top.i])
    /\ Fault
    /\ stats' = Bump(stats, <<"total_files", "pdf_files", "failed_files">>)
    /\ Recorded(ProcessingFailed(InitialFileInfo(Top.listing[Top.i], Top.directory)),
                [NoNote EXCEPT !.result = "raised"], 0, "none")
    /\ stack' = Advanced
    /\ UNCHANGED <<pc, fs, global_title_counts, cur, summary, exit_code, listed,
                   interrupts, runs, envVars>>

\* one pass of "while os.path.exists(new_file_path)"
CollisionStep ==
    /\ pc = "collision"
    /\ PathExists(fs, hasSub, cur.new_file_path)
    /\ cur' = [cur EXCEPT
                  !.new_filename = CollisionName(cur.original_new_filename, cur.counter),
                  !.new_file_path =
                      join(Top.directory,
                           CollisionName(cur.original_new_filename, cur.counter)),
                  !.counter = NextCounter(cur.counter)]
    /\ UNCHANGED <<pc, fs, stack, stats, global_title_counts, excel_data, trace,
                   summary, exit_code, listed, faults, interrupts, runs, envVars>>

\* the loop is left: the name is final and shutil.move is called; it moves
\* the file or raises
Move ==
    /\ pc = "collision"
    /\ ~PathExists(fs, hasSub, cur.new_file_path)
    /\ LET item == cur.file_info.original_filename
           file_info == [cur.file_info EXCEPT !.new_filename = cur.new_filename]
       IN  \/ /\ fs' = {IF f.dir = Top.directory /\ f.name = item
                        THEN [f EXCEPT !.dir = dirname(cur.new_file_path),
                                       !.name = basename(cur.new_file_path)]
                        ELSE f : f \in fs}
              /\ stats' = Bump(stats, <<"renamed_files">>)
              /\ Recorded(file_info, cur.note, cur.counter - 1, "moved")
              /\ UNCHANGED faults
           \/ /\ Fault
              /\ fs' = fs
              /\ stats' = Bump(stats, <<"failed_files">>)
              /\ Recorded(RenameFailed(file_info), cur.note, cur.counter - 1, "failed")
    /\ pc' = "walk"
    /\ cur' = NoCur
    /\ stack' = Advanced
    /\ UNCHANGED <<global_title_counts, summary, exit_code, listed,
                   interrupts, runs, envVars>>

\* the loop over the entries is over: process_directory returns
LeaveDirectory ==
    /\ pc = "walk"
    /\ Top.i > Len(Top.listing)
    /\ stack' = SubSeq(stack, 1, Len(stack) - 1)
    /\ pc' = IF Len(stack) = 1 THEN "report" ELSE "walk"
    /\ UNCHANGED <<fs, stats, global_title_counts, excel_data, trace, cur,
                   summary, exit_code, listed, faults, interrupts, runs, envVars>>

\* the end of rename_pdfs: the report (whose failure is caught) and the
\* summary of the counters
Summary ==
    /\ pc = "report"
    /\ summary' = <<stats>>
    /\ pc' = "returned"
    /\ UNCHANGED <<fs, stack, stats, global_title_counts, excel_data, trace, cur,
                   exit_code, listed, faults, interrupts, runs, envVars>>

\* main returns
MainReturn ==
    /\ pc = "returned"
    /\ exit_code' = ExitCode(stats)
    /\ pc' = "exit"
    /\ UNCHANGED <<fs, stack, stats, global_title_counts, excel_data, trace, cur,
                   summary, listed, faults, interrupts, runs, envVars>>

Next ==
    \/ Start
    \/ EnterDirectory
    \/ DescendDirectory
    \/ SkipNonFile
    \/ SkipFile
    \/ ProcessPdfRaises
    \/ ProcessPdf
    \/ CollisionStep
    \/ Move
    \/ LeaveDirectory
    \/ Summary
    \/ MainReturn

(***************************************************************************)
(* Specification Spec: one run of main on a bounded family of folders.     *)
(* The folder tree holds at most MaxFiles entries, each file with its      *)
(* document; the root may have one subfolder; the second the processing of a file    *)
(* starts in, and whether a library call or the move raises, are chosen    *)
(* when the file is processed.                                             *)
(***************************************************************************)
X_PDF == <<"x", ".", "p", "d", "f">>
Y_PDF == <<"y", ".", "P", "D", "F">>
A_PDF == <<"A", ".", "p", "d", "f">>
A_1_PDF == <<"A", "_", "1", ".", "p", "d", "f">>
N_TXT == <<"n", ".", "t", "x", "t">>
S_PDF == <<"s", ".", "p", "d", "f">>
H_PDF == <<".", "h", ".", "p", "d", "f">>

\* the files a root folder may hold
RootPool ==
    { [name |-> X_PDF, doc |-> DocTitled(T_SHORT)],
      [name |-> X_PDF, doc |-> DOC_ENCRYPTED],
      [name |-> X_PDF, doc |-> DocTitled(T_LONG)],
      [name |-> Y_PDF, doc |-> DocTitled(T_LONG)],
      [name |-> Y_PDF, doc |-> DocTitled(T_SHORT)],
      [name |-> Y_PDF, doc |-> DocTitled(T_USCORE)],
      [name |-> Y_PDF, doc |-> DOC_BLANK],
      [name |-> A_PDF, doc |-> DocTitled(T_SHORT)],
      [name |-> A_PDF, doc |-> DOC_CORRUPTED],
      [name |-> A_1_PDF, doc |-> DOC_CORRUPTED],
      [name |-> N_TXT, doc |-> DOC_BLANK],
      [name |-> H_PDF, doc |-> DocTitled(T_SHORT)] }

\* the files its subfolder may hold
SubPool ==
    { [name |-> S_PDF, doc |-> DocTitled(T_SHORT)],
      [name |-> S_PDF, doc |-> DocTitled(T_USCORE)] }

\* a prefix given with --custom-name; it holds a separator of directories
CUSTOM_NAME == <<"d", "/", "c">>

InitBatch ==
    /\ rootExists \in BOOLEAN
    /\ recursive \in BOOLEAN
    /\ hasSub \in BOOLEAN
    /\ custom_unknown_name \in {NONE, CUSTOM_NAME}
    /\ \E files \in SUBSET RootPool, subfiles \in SUBSET SubPool :
          /\ Cardinality(files) + Cardinality(subfiles) + (IF hasSub THEN 1 ELSE 0)
                 <= MaxFiles
          /\ \A f, g \in files \cup subfiles : f.name = g.name => f = g
          /\ ~(hasSub /\ recursive) => subfiles = {}
          /\ ~hasSub => recursive
          /\ custom_unknown_name # NONE => \E f \in files : f.doc = DOC_BLANK
          /\ ~rootExists => files = {} /\ ~hasSub /\ custom_unknown_name = NONE
          /\ fs = {[dir |-> ROOT, name |-> f.name, doc |-> f.doc] : f \in files}
                  \cup {[dir |-> SUB, name |-> f.name, doc |-> f.doc] : f \in subfiles}
    /\ stack = <<>>
    /\ stats = NoStats
    /\ global_title_counts = <<>>
    /\ excel_data = <<>>
    /\ trace = <<>>
    /\ listed = {}
    /\ faults = 0
    /\ interrupts = 0
    /\ runs = 1
    /\ cur = NoCur
    /\ summary = <<>>
    /\ exit_code = -1
    /\ pc = "main"
    /\ SanOff
    /\ ExOff
    /\ ScOff
    /\ RepOff

Spec == InitBatch /\ [][Next]_vars

\* the program is sequential: a step that can be taken is taken
FairSpec == Spec /\ WF_vars(Next)

(***************************************************************************)
(* Specification SpecRerun: the program is started again on the folder the *)
(* run before has left.  A start begins with fresh counters, fresh title   *)
(* counts and no record; the files, and the documents they hold, are what  *)
(* the run before left.                                                    *)
(***************************************************************************)
\* the program has returned and is started once more, with the same
\* arguments
Rerun ==
    /\ pc = "exit"
    /\ runs < MaxRuns
    /\ runs' = runs + 1
    /\ pc' = "main"
    /\ stack' = <<>>
    /\ stats' = NoStats
    /\ global_title_counts' = <<>>
    /\ excel_data' = <<>>
    /\ trace' = <<>>
    /\ listed' = {}
    /\ cur' = NoCur
    /\ summary' = <<>>
    /\ exit_code' = -1
    /\ UNCHANGED <<fs, faults, interrupts, envVars>>

NextRerun ==
    \/ Next
    \/ Rerun

SpecRerun == InitBatch /\ [][NextRerun]_vars

(***************************************************************************)
(* Specification SpecInterrupt: the run of Spec with KeyboardInterrupts    *)
(* delivered by the terminal.  KeyboardInterrupt is no Exception: the      *)
(* handlers "except Exception" let it pass, up to the handler of main,     *)
(* while a bare "except:" catches it.                                      *)
(***************************************************************************)
\* one more KeyboardInterrupt is delivered
Signal ==
    /\ interrupts < MaxInterrupts
    /\ interrupts' = interrupts + 1

\* the bare "except:" blocks inside the processing of one PDF
ABSORBING_SITES == {"decrypt", "institution", "text_content"}

\* the site is executed when the document is processed
SiteReached(doc, site) ==
    IF site = "decrypt" THEN doc.reader = "ok" /\ doc.is_encrypted
    ELSE IF site = "institution" THEN ExtractedTitle[doc].status = "metadata"
    ELSE Truthy(ExtractedTitle[doc].title)

\* what extract_title returns when the interrupt is raised inside the site:
\* the handler of reader.decrypt('') returns (None, "encrypted"), the one of
\* the institution lookup falls through to "return metadata_title,
\* 'metadata', None" and the one of the text read of rename_pdfs passes
InterruptedTitle(doc, site) ==
    IF site = "decrypt"
    THEN TitleOfTiers(doc, [title |-> NONE, status |-> "encrypted"], NoResult)
    ELSE IF site = "institution"
    THEN [ExtractedTitle[doc] EXCEPT !.institution = NONE]
    ELSE ExtractedTitle[doc]

\* the interrupt is raised outside every bare "except:": nothing in
\* rename_pdfs catches it, main prints the message and returns 130
InterruptPropagates ==
    /\ pc \in {"main", "walk", "collision", "report"}
    /\ Signal
    /\ exit_code' = 130
    /\ pc' = "exit"
    /\ UNCHANGED <<fs, stack, stats, global_title_counts, excel_data, trace, cur,
                   summary, listed, faults, runs, envVars>>

\* the interrupt is raised inside a bare "except:" while a PDF is processed:
\* the processing goes on with what the handler leaves
ProcessPdfInterrupted ==
    /\ AtFile
    /\ ~MatchesSkipPattern(Top.listing[Top.i]) /\ IsPdfName(Top.listing[Top.i])
    /\ Signal
    /\ \E f \in fs, t \in 1 .. MaxClock, site \in ABSORBING_SITES :
          /\ f.dir = Top.directory /\ f.name = Top.listing[Top.i]
          /\ SiteReached(f.doc, site)
          /\ \E result \in {InterruptedTitle(f.doc, site)} :
                 Processed(f.name, f.dir, result, t)
    /\ UNCHANGED <<fs, summary, exit_code, listed, faults, runs, envVars>>

\* the interrupt is raised inside a bare "except:" of the report (the font
\* of a header cell, the width of a column): the report goes on
SummaryInterrupted ==
    /\ pc = "report"
    /\ excel_data # <<>>
    /\ Signal
    /\ summary' = <<stats>>
    /\ pc' = "returned"
    /\ UNCHANGED <<fs, stack, stats, global_title_counts, excel_data, trace, cur,
                   exit_code, listed, faults, runs, envVars>>

NextInterrupt ==
    \/ Next
    \/ InterruptPropagates
    \/ ProcessPdfInterrupted
    \/ SummaryInterrupted

SpecInterrupt == InitBatch /\ [][NextInterrupt]_vars

(***************************************************************************)
(* PaperInstitutionReporter (generate_paper_institution_report.py).        *)
(* A character outside ASCII is written as the name of its code point.     *)
(***************************************************************************)
\* self.institution_mapping, in the order of the dict: folder name and
\* institution
institution_mapping ==
    <<
    << << "A", "A", "A", "I" >>,
       << "A", "A", "A", "I" >> >>,
    << << "A", "C", "M" >>,
       << "A", "C", "M" >> >>,
    << << "E", "B", "S", "C", "O" >>,
       << "E", "B", "S", "C", "O" >> >>,
    << << "E", "I" >>,
       << "E", "I" >> >>,
    << << "I", "C", "M", "L" >>,
       << "I", "C", "M", "L" >> >>,
    << << "N", "a", "t", "u", "r", "e" >>,
       << "N", "a", "t", "u", "r", "e" >> >>,
    << << "S", "c", "i", "e", "n", "c", "e", "D", "i", "r", "e", "c", "t" >>,
       << "S", "c", "i", "e", "n", "c", "e", "D", "i", "r", "e", "c", "t" >> >>,
    << << "u77e5", "u7f51" >>,
       << "u4e2d", "u56fd", "u77e5", "u7f51" >> >>
    >>

\* self.publisher_patterns, in the order of the dict: publisher and keywords
publisher_patterns ==
    <<
    << << "A", "A", "A", "I", " ", "P", "r", "e", "s", "s" >>,
       << << "A", "A", "A", "I" >> >> >>,
    << << "A", "C", "M" >>,
       << << "A", "C", "M" >> >> >>,
    << << "E", "B", "S", "C", "O", " ", "P", "u", "b", "l", "i", "s", "h", "i", "n", "g" >>,
       << << "E", "B", "S", "C", "O" >> >> >>,
    << << "E", "l", "s", "e", "v", "i", "e", "r" >>,
       << << "S", "c", "i", "e", "n", "c", "e", "D", "i", "r", "e", "c", "t" >>, << "E", "l", "s", "e", "v", "i", "e", "r" >> >> >>,
    << << "E", "n", "g", "i", "n", "e", "e", "r", "i", "n", "g", " ", "I", "n", "d", "e", "x" >>,
       << << "E", "I" >> >> >>,
    << << "I", "C", "M", "L" >>,
       << << "I", "C", "M", "L" >> >> >>,
    << << "N", "a", "t", "u", "r", "e", " ", "P", "u", "b", "l", "i", "s", "h", "i", "n", "g", " ", "G", "r", "o", "u", "p" >>,
       << << "N", "a", "t", "u", "r", "e" >> >> >>,
    << << "u4e2d", "u56fd", "u77e5", "u7f51" >>,
       << << "u77e5", "u7f51" >>, << "C", "N", "K", "I" >> >> >>
    >>

\* the default of identify_publisher
UNKNOWN_PUBLISHER == << "u672a", "u77e5", "u51fa", "u7248", "u793e" >>

\* the folder of the logs, which scan_directories passes over
LOGS == << "l", "o", "g", "s" >>

\* the characters of the range u4e00 to u9fa5 that occur in the names of
\* the model
CJK_CHARS ==
    {"u4e2d", "u56fd", "u77e5", "u7f51", "u9648", "u672a", "u51fa", "u7248",
     "u793e"}

\* re.sub of a pattern [_-]X$ by '': the name without its tail, where the
\* tail is a hyphen or an underscore followed, up to the end, by characters
\* of the class, as many as lens allows
SubTail(s, class, lens) ==
    LET starts == {i \in 1 .. (Len(s) - 1) :
                      /\ s[i] \in {"-", "_"}
                      /\ (Len(s) - i) \in lens
                      /\ \A j \in (i + 1) .. Len(s) : s[j] \in class}
    IN  IF starts = {} THEN s
        ELSE Take(s, (CHOOSE i \in starts : \A j \in starts : i <= j) - 1)

\* PaperInstitutionReporter.sanitize_filename
reporter_sanitize_filename(filename) ==
    LET cut == IF EndsWith(Lower(filename), PDF_EXT)
               THEN Take(filename, Len(filename) - 4) ELSE filename
    IN  Strip(SubTail(cut, DIGITS, 1 .. Len(cut)))

extract_title_from_filename(filename) ==
    LET title == reporter_sanitize_filename(filename)
        no_author == SubTail(title, CJK_CHARS, 1 .. Len(title))
        no_year == SubTail(no_author, DIGITS, {4})
    IN  Strip(no_year)

identify_publisher(institution, filename) ==
    LET text_to_check == Lower(institution \o <<" ">> \o filename)
        Keywords(p) == publisher_patterns[p][2]
        exact == {p \in 1 .. Len(publisher_patterns) :
                     \E k \in 1 .. Len(Keywords(p)) :
                         Lower(Keywords(p)[k]) = Lower(institution)}
        inside == {p \in 1 .. Len(publisher_patterns) :
                      \E k \in 1 .. Len(Keywords(p)) :
                          Contains(text_to_check, Lower(Keywords(p)[k]))}
        mapped == {m \in 1 .. Len(institution_mapping) :
                      institution_mapping[m][1] = institution}
    IN  IF exact # {}
        THEN publisher_patterns[CHOOSE p \in exact : \A q \in exact : p <= q][1]
        ELSE IF inside # {}
        THEN publisher_patterns[CHOOSE p \in inside : \A q \in inside : p <= q][1]
        ELSE IF mapped # {}
        THEN institution_mapping[CHOOSE m \in mapped : TRUE][2]
        ELSE UNKNOWN_PUBLISHER

\* the institution scan_directories gives a folder of the root
InstitutionOf(folder_name) ==
    LET mapped == {m \in 1 .. Len(institution_mapping) :
                      institution_mapping[m][1] = folder_name}
    IN  IF mapped = {} THEN folder_name
        ELSE institution_mapping[CHOOSE m \in mapped : TRUE][2]

\* the row _scan_folder appends for a PDF (the keys of the dict are, in
\* this order, the institution, the publisher, the title, the file name
\* and the path of the folder)
PaperRow(folder_path, institution, original_folder, item) ==
    [institution |-> institution,
     publisher |-> identify_publisher(original_folder, item),
     title |-> extract_title_from_filename(item),
     original_filename |-> item,
     folder_path |-> folder_path]

\* mutant: an institution that is counted already keeps its count
TalliedOncePerInstitution(st, institution, publisher) ==
    [total_papers |-> st.total_papers + 1,
     institution_counts |->
         IF institution \in DOMAIN st.institution_counts THEN st.institution_counts
         ELSE Counted(st.institution_counts, institution),
     publisher_counts |-> Counted(st.publisher_counts, publisher)]

\* self.stats after the three updates for one paper
Tallied(st, institution, publisher) ==
    [total_papers |-> st.total_papers + 1,
     institution_counts |-> Counted(st.institution_counts, institution),
     publisher_counts |-> Counted(st.publisher_counts, publisher)]

(***************************************************************************)
(* run as a state machine                                                  *)
(*                                                                         *)
(*   repPc = "run"     run is about to call scan_directories               *)
(*   repPc = "scan"    inside the walk, between two entries                *)
(*   repPc = "excel"   before generate_excel_report                        *)
(*   repPc = "text"    before generate_text_report                         *)
(*   repPc = "done"    run has returned repRet                             *)
(*                                                                         *)
(* repTodo holds the entries the loops of scan_directories and of the      *)
(* running calls of _scan_folder have still to visit, the next one first.  *)
(***************************************************************************)
ROOT_DIR == <<"r">>

File(name) == [name |-> name, kind |-> "file", children |-> {}]

Dir(name, children) == [name |-> name, kind |-> "dir", children |-> children]

\* an entry of the root, for the loop of scan_directories
RootEntry(node) ==
    [level |-> "root", node |-> node, folder_path |-> ROOT_DIR,
     institution |-> <<>>, original_folder |-> <<>>]

\* an entry of a folder, for the loop of _scan_folder
FolderEntry(node, folder_path, institution, original_folder) ==
    [level |-> "folder", node |-> node, folder_path |-> folder_path,
     institution |-> institution, original_folder |-> original_folder]

NoReportStats ==
    [total_papers |-> 0, institution_counts |-> <<>>, publisher_counts |-> <<>>]

NoWriters == [excel |-> "None", text |-> "None"]

\* _scan_folder is called: os.listdir returns the entries in some order, or
\* raises, which the call catches
ScanFolder(folder_path, institution, original_folder, children, rest) ==
    \/ \E l \in Listings(children) :
           repTodo' = [i \in 1 .. Len(l) |->
                          FolderEntry(l[i], folder_path, institution, original_folder)]
                      \o rest
    \/ repTodo' = rest

\* run calls scan_directories, which lists the root
ScanDirectories ==
    /\ repPc = "run"
    /\ \E l \in Listings(repTree) :
           repTodo' = [i \in 1 .. Len(l) |-> RootEntry(l[i])]
    /\ repPc' = "scan"
    /\ UNCHANGED <<repTree, papers_data, report_stats, repRet, repWriters, repFound,
                   sanVars, exVars, scVars, batchVars>>

\* an entry of the root that is no folder, or a folder passed over
SkipRootEntry ==
    /\ repPc = "scan" /\ repTodo # <<>> /\ Head(repTodo).level = "root"
    /\ \/ Head(repTodo).node.kind # "dir"
       \/ StartsWith(Head(repTodo).node.name, <<".">>)
       \/ Head(repTodo).node.name = LOGS
    /\ repTodo' = Tail(repTodo)
    /\ UNCHANGED <<repTree, papers_data, report_stats, repPc, repRet, repWriters,
                   repFound, sanVars, exVars, scVars, batchVars>>

\* a folder of the root: _scan_folder is called for it
ScanInstitutionFolder ==
    /\ repPc = "scan" /\ repTodo # <<>> /\ Head(repTodo).level = "root"
    /\ Head(repTodo).node.kind = "dir"
    /\ ~StartsWith(Head(repTodo).node.name, <<".">>)
    /\ Head(repTodo).node.name # LOGS
    /\ LET folder_name == Head(repTodo).node.name
       IN  ScanFolder(join(ROOT_DIR, folder_name), InstitutionOf(folder_name),
                      folder_name, Head(repTodo).node.children, Tail(repTodo))
    /\ UNCHANGED <<repTree, papers_data, report_stats, repPc, repRet, repWriters,
                   repFound, sanVars, exVars, scVars, batchVars>>

\* an entry of a folder that is a folder: _scan_folder calls itself
ScanSubfolder ==
    /\ repPc = "scan" /\ repTodo # <<>> /\ Head(repTodo).level = "folder"
    /\ Head(repTodo).node.kind = "dir"
    /\ LET e == Head(repTodo)
           item == e.node.name
       IN  ScanFolder(join(e.folder_path, item),
                      e.institution \o <<" ", "-", " ">> \o item,
                      e.original_folder, e.node.children, Tail(repTodo))
    /\ UNCHANGED <<repTree, papers_data, report_stats, repPc, repRet, repWriters,
                   repFound, sanVars, exVars, scVars, batchVars>>

\* an entry of a folder that is a PDF: its row is appended and counted
ScanPdf ==
    /\ repPc = "scan" /\ repTodo # <<>> /\ Head(repTodo).level = "folder"
    /\ Head(repTodo).node.kind # "dir"
    /\ EndsWith(Lower(Head(repTodo).node.name), PDF_EXT)
    /\ LET e == Head(repTodo)
           row == PaperRow(e.folder_path, e.institution, e.original_folder,
                           e.node.name)
       IN  /\ papers_data' = Append(papers_data, row)
           /\ report_stats' = Tallied(report_stats, row.institution, row.publisher)
    /\ repFound' = repFound + 1
    /\ repTodo' = Tail(repTodo)
    /\ UNCHANGED <<repTree, repPc, repRet, repWriters,
                   sanVars, exVars, scVars, batchVars>>

\* an entry of a folder that is neither a folder nor a PDF
SkipFolderEntry ==
    /\ repPc = "scan" /\ repTodo # <<>> /\ Head(repTodo).level = "folder"
    /\ Head(repTodo).node.kind # "dir"
    /\ ~EndsWith(Lower(Head(repTodo).node.name), PDF_EXT)
    /\ repTodo' = Tail(repTodo)
    /\ UNCHANGED <<repTree, papers_data, report_stats, repPc, repRet, repWriters,
                   repFound, sanVars, exVars, scVars, batchVars>>

\* scan_directories has returned: run returns False without a row
ScanReturns ==
    /\ repPc = "scan" /\ repTodo = <<>>
    /\ IF papers_data = <<>>
       THEN repRet' = "False" /\ repPc' = "done"
       ELSE repRet' = repRet /\ repPc' = "excel"
    /\ UNCHANGED <<repTree, repTodo, papers_data, report_stats, repWriters,
                   repFound, sanVars, exVars, scVars, batchVars>>

\* generate_excel_report returns True, or False when the writer raised
GenerateExcelReport ==
    /\ repPc = "excel"
    /\ \E ok \in {"True", "False"} : repWriters' = [repWriters EXCEPT !.excel = ok]
    /\ repPc' = "text"
    /\ UNCHANGED <<repTree, repTodo, papers_data, report_stats, repRet, repFound,
                   sanVars, exVars, scVars, batchVars>>

\* generate_text_report returns True, or False when the writer raised; run
\* returns True
GenerateTextReport ==
    /\ repPc = "text"
    /\ \E ok \in {"True", "False"} : repWriters' = [repWriters EXCEPT !.text = ok]
    /\ repRet' = "True"
    /\ repPc' = "done"
    /\ UNCHANGED <<repTree, repTodo, papers_data, report_stats, repFound,
                   sanVars, exVars, scVars, batchVars>>

NextReport ==
    \/ ScanDirectories
    \/ SkipRootEntry
    \/ ScanInstitutionFolder
    \/ ScanSubfolder
    \/ ScanPdf
    \/ SkipFolderEntry
    \/ ScanReturns
    \/ GenerateExcelReport
    \/ GenerateTextReport

(***************************************************************************)
(* Specification SpecReport: one call of run on a bounded family of trees: *)
(* at most MaxFolders entries in the root, each folder with one of a few   *)
(* contents.                                                               *)
(***************************************************************************)
\* "a_1.pdf"
F_A1 == File(<< "a", "_", "1", ".", "p", "d", "f" >>)

\* "ACM b.pdf"
F_ACM == File(<< "A", "C", "M", " ", "b", ".", "p", "d", "f" >>)

\* "x_2020_u9648.pdf": a title, a year and an author
F_CJK == File(<< "x", "_", "2", "0", "2", "0", "_", "u9648", ".", "p", "d", "f" >>)

\* "b.PDF"
F_B == File(<< "b", ".", "P", "D", "F" >>)

\* "n.txt"
F_N == File(<< "n", ".", "t", "x", "t" >>)

\* "top.pdf", a PDF that lies in the root itself
F_TOP == File(<< "t", "o", "p", ".", "p", "d", "f" >>)

\* what a folder may hold
Contents ==
    { {}, {F_A1}, {F_A1, F_ACM},
      {F_CJK, F_N, Dir(<<"s">>, {F_B, F_A1})} }

\* what the root may hold
RootNodes ==
    {Dir(name, c) : name \in {<< "A", "A", "A", "I" >>, << "u77e5", "u7f51" >>, << "m", "i", "s", "c" >>},
                    c \in Contents}
        \cup {Dir(<<".", "g", "i", "t">>, {F_A1}), Dir(LOGS, {F_A1}), F_TOP}

Trees ==
    {t \in SUBSET RootNodes :
        /\ Cardinality(t) <= MaxFolders
        /\ \A m, n \in t : m.name = n.name => m = n}

InitReport ==
    /\ repTree \in Trees
    /\ repTodo = <<>>
    /\ papers_data = <<>>
    /\ report_stats = NoReportStats
    /\ repPc = "run"
    /\ repRet = "None"
    /\ repWriters = NoWriters
    /\ repFound = 0
    /\ SanOff
    /\ ExOff
    /\ ScOff
    /\ BatchOff

SpecReport == InitReport /\ [][NextReport]_vars

(***************************************************************************)
(* Properties of extract_title (specification SpecExtract)                 *)
(***************************************************************************)
TITLED_STATUSES == {"metadata", "content", "low_confidence"}

UNTITLED_STATUSES == {"encrypted", "corrupted", "no_title_found", "extraction_failed"}

\* C1: the triple extract_title returns has a title exactly when its status
\* is metadata, content or low_confidence, and a result without a title has
\* one of the statuses encrypted, corrupted, no_title_found, extraction_failed.
C1_TitleIffStatus ==
    exPc = "returned" =>
        /\ (exResult.title # NONE) <=> (exResult.status \in TITLED_STATUSES)
        /\ (exResult.title = NONE) => (exResult.status \in UNTITLED_STATUSES)
        /\ (exResult.title # NONE) => Truthy(exResult.title)

C1_Witness ==
    /\ exPc = "returned"
    /\ exResult.title # NONE
    /\ exResult.status = "low_confidence"

\* the metadata of the document can be read: the reader opened the file, an
\* encrypted file was decrypted, and reader.metadata is there
MetadataReadable(doc) ==
    /\ doc.reader = "ok"
    /\ ~(doc.is_encrypted /\ doc.decrypt = "raise")
    /\ doc.info = "ok"
    /\ doc.metadata # <<>>

\* the /Title value is not empty once trimmed and is no placeholder
UsableTitleField(doc) ==
    /\ MetadataReadable(doc)
    /\ Strip(doc.metadata[1]) # <<>>
    /\ Lower(Strip(doc.metadata[1])) \notin PLACEHOLDERS

\* C2: for a document whose metadata title field holds a value that is not
\* empty (once trimmed) and not a placeholder, extract_title returns that
\* value, trimmed, with status metadata, and extract_title_from_content is
\* not invoked.
C2_MetadataTitleWins ==
    (exPc = "returned" /\ UsableTitleField(exDoc)) =>
        /\ exResult.title = Strip(exDoc.metadata[1])
        /\ exResult.status = "metadata"
        /\ \A i \in 1 .. Len(exResult.calls) : exResult.calls[i] # "content"

\* a short /Title value that validate_title rejects, on a document whose
\* pages hold a title the content tier would find
C2_Witness ==
    /\ exPc = "returned"
    /\ UsableTitleField(exDoc)
    /\ ~validate_title(Strip(exDoc.metadata[1]))
    /\ exDoc.plumber = "ok"
    /\ exDoc.pages = <<PAGE_GOOD>>
    /\ exResult.status = "metadata"

\* C3: for an encrypted document whose decryption with the empty password
\* fails, extract_title returns (None, encrypted, None) and the content tier
\* (region scanning) is not attempted.
C3_EncryptedShortCircuit ==
    (exPc = "returned" /\ exDoc.reader = "ok" /\ exDoc.is_encrypted
         /\ exDoc.decrypt = "raise") =>
        /\ exResult.title = NONE
        /\ exResult.status = "encrypted"
        /\ exResult.institution = NONE
        /\ \A i \in 1 .. Len(exResult.calls) : exResult.calls[i] # "content"

C3_Witness ==
    /\ exPc = "returned"
    /\ exDoc.reader = "ok" /\ exDoc.is_encrypted /\ exDoc.decrypt = "raise"
    /\ exDoc.metadata # <<>>
    /\ exDoc.pages = <<PAGE_GOOD>>
    /\ exResult.status = "encrypted"

\* the document is structurally corrupt and the tier that reads it says so:
\* the metadata reader raises PdfReadError, or the content tier is entered
\* and the region extractor raises PDFSyntaxError
ParseFailureDetected(doc, result) ==
    \/ doc.reader = "PdfReadError"
    \/ doc.reader = "ok" /\ ~DecryptFailed(doc) /\ doc.info = "PdfReadError"
    \/ /\ \E i \in 1 .. Len(result.calls) : result.calls[i] = "content"
       /\ doc.plumber = "PDFSyntaxError"

\* C4: whenever the parse failure of a corrupt document is detected, by the
\* metadata reader or by the region extractor of the content tier,
\* extract_title returns (None, corrupted, None).
C4_CorruptedReported ==
    (exPc = "returned" /\ ParseFailureDetected(exDoc, exResult)) =>
        /\ exResult.title = NONE
        /\ exResult.status = "corrupted"
        /\ exResult.institution = NONE

(***************************************************************************)
(* Properties of sanitize_filename (specification SpecSan)                 *)
(***************************************************************************)
\* C6: sanitize_filename is idempotent: sanitizing a name it returned gives
\* the same name back, also for inputs cut at the maximum length.
C6_SanitizeIdempotent ==
    sanPc = "out" => sanitize_filename(sanOut) = sanOut

(***************************************************************************)
(* Properties of the batch run (specifications Spec and FairSpec)          *)
(***************************************************************************)
\* the counter of the files extract_title reports as k
CounterOf(k) == IF k = "encrypted" THEN "encrypted_files" ELSE "corrupted_files"

\* C5: a PDF whose extraction result is encrypted or corrupted keeps its
\* name (no file moves, the record's new_filename is the original filename),
\* its record has that status, and of the counters only total_files,
\* pdf_files and the matching one of encrypted_files and corrupted_files
\* change, the latter by one: renamed_files and failed_files stay.
C5_EncryptedCorruptedLeftAlone ==
    [][\A k \in {"encrypted", "corrupted"} :
          (Len(trace') = Len(trace) + 1 /\ trace'[Len(trace')].result = k) =>
              /\ fs' = fs
              /\ pc' = "walk"
              /\ trace'[Len(trace')].moved = "none"
              /\ excel_data'[Len(excel_data')].new_filename =
                     excel_data'[Len(excel_data')].original_filename
              /\ excel_data'[Len(excel_data')].status = k
              /\ stats'[CounterOf(k)] = stats[CounterOf(k)] + 1
              /\ \A n \in STAT_NAMES \ {"total_files", "pdf_files", CounterOf(k)} :
                     stats'[n] = stats[n]]_vars

\* a run that met an encrypted file and a corrupted one
C5_Witness ==
    /\ stats.encrypted_files = 1 /\ stats.corrupted_files = 1
    /\ \E i, j \in 1 .. Len(trace) :
          /\ trace[i].result = "encrypted" /\ excel_data[i].status = "encrypted"
          /\ trace[j].result = "corrupted" /\ excel_data[j].status = "corrupted"

\* base_(k-1).pdf for the generated name base.pdf, base.pdf itself for k = 1
SuffixedName(generated, k) ==
    IF k = 1 THEN generated
    ELSE Take(generated, Len(generated) - 4) \o <<"_">> \o IntToStr(k - 1) \o PDF_EXT

\* the base of the generated name base.pdf has a character that is no period
HasBase(generated) ==
    \E i \in 1 .. (Len(generated) - 4) : generated[i] # "."

\* C7 as stated: the k-th PDF with the generated name base.pdf is assigned
\* base_(k-1).pdf, the first base.pdf.
C7_KthGetsSuffix ==
    \A i \in 1 .. Len(trace) :
        trace[i].generated # NONE =>
            excel_data[i].new_filename = SuffixedName(trace[i].generated, trace[i].nth)

\* C7, amended: the k-th PDF with the generated name base.pdf, where base has
\* a character other than a period, is assigned base_(k-1).pdf (the first
\* base.pdf) when the collision loop finds that name free in the directory
\* of the file, or when the file bears that name already.
C7_KthGetsSuffixWhenFree ==
    \A i \in 1 .. Len(trace) :
        (trace[i].generated # NONE /\ HasBase(trace[i].generated)
             /\ trace[i].loops = 0) =>
            excel_data[i].new_filename = SuffixedName(trace[i].generated, trace[i].nth)

\* three files of one title, the third of which got base_2.pdf
C7_Witness ==
    \E i \in 1 .. Len(trace) :
        /\ trace[i].generated = A_PDF /\ trace[i].nth = 3 /\ trace[i].loops = 0
        /\ trace[i].moved = "moved"
        /\ excel_data[i].new_filename = <<"A", "_", "2", ".", "p", "d", "f">>

\* the entry is a file the walk processes as a PDF
IsPdfEntry(e) ==
    /\ e.name # SUB_NAME
    /\ ~MatchesSkipPattern(e.name)
    /\ IsPdfName(e.name)

\* C8: a failed move is recorded on the record of the file as rename_failed
\* with an error message, another exception in the processing of a file as
\* processing_error with an error message, and the walk goes on: when
\* process_directory has returned every PDF entry os.listdir returned has
\* its record.
C8_FailuresRecordedWalkGoesOn ==
    /\ Len(trace) = Len(excel_data)
    /\ \A i \in 1 .. Len(trace) :
          /\ trace[i].moved = "failed" =>
                 /\ excel_data[i].status = "rename_failed"
                 /\ StartsWith(excel_data[i].error_message, RENAME_ERROR)
          /\ trace[i].result = "raised" =>
                 /\ excel_data[i].status = "processing_error"
                 /\ StartsWith(excel_data[i].error_message, PROCESSING_ERROR)
    /\ pc \in {"report", "returned", "exit"} =>
          \A e \in listed :
              IsPdfEntry(e) =>
                  \E i \in 1 .. Len(excel_data) :
                      /\ excel_data[i].original_filename = e.name
                      /\ excel_data[i].original_path = e.dir

\* a walk that went on after a failed move and after a processing error
C8_Witness ==
    /\ pc = "report"
    /\ \E i \in 1 .. (Len(excel_data) - 1) :
          /\ trace[i].moved = "failed"
          /\ excel_data[i].status = "rename_failed"
          /\ excel_data[i + 1].status = "success"

\* C9: a run of rename_pdfs on an existing root folder reaches the summary
\* of the counters, whatever failures and collisions the walk meets.
C9_SummaryReached ==
    (pc = "walk") ~> (pc = "returned" /\ summary # <<>>)

\* a run that went twice round the collision loop and printed the summary
C9_Witness ==
    /\ pc = "returned" /\ summary # <<>>
    /\ \E i \in 1 .. Len(trace) : trace[i].loops = 2

\* C10 as stated: a run that found no PDF ends with a status other than
\* success.
C10_NoPdfFails ==
    (pc = "exit" /\ stats.pdf_files = 0) => exit_code # 0

\* C10, amended: main returns the success status whenever rename_pdfs
\* returns, with or without PDF files and whatever failed on the way.
C10_AlwaysSuccess ==
    pc = "exit" => exit_code = 0

\* a run on an existing folder without a PDF, and its status
C10_Witness ==
    /\ pc = "exit" /\ rootExists
    /\ stats.pdf_files = 0 /\ stats.total_files = 1
    /\ exit_code = 0

(***************************************************************************)
(* Properties of an interrupted run (specification SpecInterrupt)          *)
(***************************************************************************)
\* C11: once a KeyboardInterrupt has been delivered during a batch run, the
\* run has stopped and main has returned 130; the interrupt is never taken
\* for an outcome of the file being processed, after which the walk goes on.
C11_InterruptStopsRun ==
    interrupts > 0 => (pc = "exit" /\ exit_code = 130)

(***************************************************************************)
(* Properties of the moves (specification Spec)                            *)
(***************************************************************************)
\* C12: every step of a batch run leaves every file in the directory it was
\* in: a file that is moved gets a new name in its own directory, whatever
\* name was generated for it.
C12_MovedInPlace ==
    [][\A f \in fs :
          f \in fs' \/ \E g \in fs' \ fs : g.dir = f.dir /\ g.doc = f.doc]_vars

\* a run that moved a file to a name with the custom prefix, whose separator
\* was replaced, and moved a file of the subfolder
C12_Witness ==
    /\ custom_unknown_name = CUSTOM_NAME
    /\ \E i \in 1 .. Len(excel_data) :
          /\ trace[i].moved = "moved"
          /\ excel_data[i].status = "default_named"
          /\ StartsWith(excel_data[i].new_filename, <<"d", "-", "c", "_">>)
          /\ \E f \in fs : f.dir = ROOT /\ f.name = excel_data[i].new_filename
    /\ \E f \in fs : f.dir = SUB /\ f.name # S_PDF

(***************************************************************************)
(* Properties of the selection of the files (specification Spec)           *)
(***************************************************************************)
\* the name matches a skip pattern: a leading period, a leading ~$,
\* Thumbs.db or desktop.ini
SkipNamed(name) ==
    \/ (Len(name) >= 1 /\ name[1] = ".")
    \/ (Len(name) >= 2 /\ name[1] = "~" /\ name[2] = "$")
    \/ name \in { <<"T", "h", "u", "m", "b", "s", ".", "d", "b">>,
                  <<"d", "e", "s", "k", "t", "o", "p", ".", "i", "n", "i">> }

\* the name ends in .pdf, in any letter case
PdfNamed(name) ==
    /\ Len(name) >= 4
    /\ name[Len(name) - 3] = "."
    /\ name[Len(name) - 2] \in {"p", "P"}
    /\ name[Len(name) - 1] \in {"d", "D"}
    /\ name[Len(name)] \in {"f", "F"}

\* the listed entries that are regular files to skip, and to process
SkippedEntries ==
    {e \in listed : e.name # SUB_NAME /\ (SkipNamed(e.name) \/ ~PdfNamed(e.name))}

PdfEntries ==
    {e \in listed : e.name # SUB_NAME /\ ~SkipNamed(e.name) /\ PdfNamed(e.name)}

\* the file of the entry has a record
HasRecord(e) ==
    \E i \in 1 .. Len(excel_data) :
        /\ excel_data[i].original_filename = e.name
        /\ excel_data[i].original_path = e.dir

\* C13: a listed file whose name matches a skip pattern or does not end in
\* .pdf (in any letter case) keeps its name and place and gets no record, so
\* that extract_title never sees it; it is counted once in skipped_files.
\* Every other listed file, whatever the letter case of its .pdf, is
\* processed as a PDF: it is counted in pdf_files and has a record when the
\* walk is over.
C13_SkippedNeverProcessed ==
    /\ \A e \in SkippedEntries :
          /\ \E f \in fs : f.dir = e.dir /\ f.name = e.name
          /\ ~HasRecord(e)
    /\ stats.skipped_files <= Cardinality(SkippedEntries)
    /\ stats.pdf_files = Len(excel_data) + (IF pc = "collision" THEN 1 ELSE 0)
    /\ pc \in {"report", "returned", "exit"} =>
          /\ stats.skipped_files = Cardinality(SkippedEntries)
          /\ stats.pdf_files = Cardinality(PdfEntries)
          /\ \A e \in PdfEntries : HasRecord(e)

\* a walk that skipped a hidden .pdf and a text file and processed a file
\* named .PDF
C13_Witness ==
    /\ pc = "report"
    /\ stats.skipped_files = 2 /\ stats.pdf_files = 1
    /\ \E e \in SkippedEntries : e.name = H_PDF
    /\ \E e \in SkippedEntries : e.name = N_TXT
    /\ \E i \in 1 .. Len(excel_data) : excel_data[i].original_filename = Y_PDF

(***************************************************************************)
(* Properties of the length of the names (specification Spec)              *)
(***************************************************************************)
\* C14: the name recorded for a file with an extracted title is at most
\* MAX_TITLE_LENGTH characters long, the extension .pdf included.
C14_NameWithinLimit ==
    \A i \in 1 .. Len(excel_data) :
        Truthy(excel_data[i].extracted_title) /\ trace[i].result # "raised" =>
            Len(excel_data[i].new_filename) <= MAX_TITLE_LENGTH

(***************************************************************************)
(* Properties of sanitize_filename (specification SpecSan)                 *)
(***************************************************************************)
\* the punctuation characters of ASCII (but the grave accent, which no name
\* of the model holds)
PUNCTUATION ==
    {"!", "\"", "#", "$", "%", "&", "'", "(", ")", "*", "+", ",", "-", ".", "/",
     ":", ";", "<", "=", ">", "?", "@", "[", "\\", "]", "^", "_", "{", "|",
     "}", "~"}

\* C15: sanitize_filename never returns a name that holds punctuation
\* characters only: when cleaning leaves nothing else, the fixed label of an
\* unnamed file is returned.
C15_PunctuationFallsBack ==
    sanPc = "out" =>
        \/ sanOut = UNNAMED
        \/ \E i \in 1 .. Len(sanOut) : sanOut[i] \notin PUNCTUATION

(***************************************************************************)
(* Properties of the metadata tier (specification SpecExtract)             *)
(***************************************************************************)
\* the value of the f-th field (1 title, 2 subject, 3 topic, 4 keywords) is
\* not empty once trimmed, is no placeholder, and is the title field or
\* passes validate_title
FieldAccepted(doc, f) ==
    LET value == Strip(doc.metadata[f])
    IN  /\ value # <<>>
        /\ Lower(value) \notin PLACEHOLDERS
        /\ (f = 1 \/ validate_title(value))

\* C16: on a document whose metadata can be read, the metadata tier returns
\* the trimmed value of the first field, in the order title, subject, topic,
\* keywords, that is accepted: a title value is accepted even when
\* validate_title rejects it, a value of another field only when it passes.
\* When no field is accepted the tier returns no title.
C16_FirstAcceptedFieldWins ==
    (exPc = "returned" /\ MetadataReadable(exDoc)) =>
        LET accepted == {f \in 1 .. 4 : FieldAccepted(exDoc, f)}
        IN  IF accepted = {}
            THEN exResult.status # "metadata"
            ELSE \E f \in accepted :
                     /\ \A g \in accepted : f <= g
                     /\ exResult.title = Strip(exDoc.metadata[f])
                     /\ exResult.status = "metadata"

\* a placeholder in the title field, a subject that validate_title rejects,
\* and a later field that wins
C16_Witness ==
    /\ exPc = "returned" /\ MetadataReadable(exDoc)
    /\ Lower(Strip(exDoc.metadata[1])) \in PLACEHOLDERS \ {<<>>}
    /\ Strip(exDoc.metadata[2]) # <<>>
    /\ ~validate_title(Strip(exDoc.metadata[2]))
    /\ \E f \in 3 .. 4 :
          /\ FieldAccepted(exDoc, f)
          /\ exResult.title = Strip(exDoc.metadata[f])
    /\ exResult.status = "metadata"

(***************************************************************************)
(* Properties of the content tier (specification SpecExtract)              *)
(***************************************************************************)
\* extract_title went on to the content tier and pdfplumber read the pages
ContentTierRan(doc, result) ==
    /\ \E i \in 1 .. Len(result.calls) : result.calls[i] = "content"
    /\ doc.plumber = "ok"

\* what the candidate scorer returns for the region
ScorerResult(doc, region) == extract_title_from_text(RegionText(doc, region))

\* the scorer returns a line for the region and validate_title accepts it
RegionValid(doc, region) ==
    /\ Truthy(ScorerResult(doc, region))
    /\ validate_title(ScorerResult(doc, region))

\* the regions before the given one, in the order content, full, header,
\* footer
EarlierRegions(region) ==
    IF region = "content" THEN {}
    ELSE IF region = "full" THEN {"content"}
    ELSE IF region = "header" THEN {"content", "full"}
    ELSE {"content", "full", "header"}

\* C17: when the content tier runs and the scorer's result for some region
\* passes validate_title, the tier returns, with status content, the result
\* for the first such region in the order content, full page, header,
\* footer: every region before it gave no result or an invalid one.
C17_FirstValidRegionWins ==
    (exPc = "returned" /\ ContentTierRan(exDoc, exResult)
         /\ \E region \in {"content", "full", "header", "footer"} :
                RegionValid(exDoc, region)) =>
        /\ exResult.status = "content"
        /\ \E region \in {"content", "full", "header", "footer"} :
              /\ RegionValid(exDoc, region)
              /\ \A earlier \in EarlierRegions(region) : ~RegionValid(exDoc, earlier)
              /\ exResult.title = ScorerResult(exDoc, region)

\* a document whose content box and full page both give a valid result, and
\* not the same one
C17_Witness ==
    /\ exPc = "returned" /\ ContentTierRan(exDoc, exResult)
    /\ RegionValid(exDoc, "content") /\ RegionValid(exDoc, "full")
    /\ ScorerResult(exDoc, "content") # ScorerResult(exDoc, "full")
    /\ exResult.title = ScorerResult(exDoc, "content")
    /\ exResult.status = "content"

\* the lines of a text, trimmed, that are longer than 5 characters
LongLines(text) ==
    LET lines == SplitLines(text)
        Long(line) == Len(line) > 5
    IN  SelectSeq([i \in 1 .. Len(lines) |-> Strip(lines[i])], Long)

\* the pool of the lines of all regions, in the order region_texts holds
\* them (full page, header, content, footer)
PooledLines(doc) ==
    LongLines(RegionText(doc, "full")) \o LongLines(RegionText(doc, "header"))
        \o LongLines(RegionText(doc, "content"))
        \o LongLines(RegionText(doc, "footer"))

\* the first 10 lines of the pool that are not purely numeric
Remaining(doc) ==
    LET pool == PooledLines(doc)
        NotNumeric(line) == \E i \in 1 .. Len(line) : line[i] \notin DIGITS
    IN  SelectSeq(SubSeq(pool, 1, IF Len(pool) < 10 THEN Len(pool) ELSE 10),
                  NotNumeric)

\* C18: when the content tier runs and no region gives a valid candidate,
\* extract_title_from_content returns the first of the longest lines that
\* remain of the pool, with status low_confidence and whether or not
\* validate_title accepts it; when no line remains it returns no title with
\* status no_title_found.
C18_LowConfidenceFallback ==
    (exPc = "returned" /\ ContentTierRan(exDoc, exResult)
         /\ \A region \in {"content", "full", "header", "footer"} :
                ~RegionValid(exDoc, region)) =>
        LET remaining == Remaining(exDoc)
            returned == extract_title_from_content(exDoc)
        IN  IF remaining = <<>>
            THEN /\ returned.title = NONE
                 /\ returned.status = "no_title_found"
                 /\ exResult.title = NONE
            ELSE /\ returned.status = "low_confidence"
                 /\ \E i \in 1 .. Len(remaining) :
                       /\ returned.title = remaining[i]
                       /\ \A j \in 1 .. Len(remaining) :
                             Len(remaining[j]) <= Len(remaining[i])
                       /\ \A j \in 1 .. (i - 1) :
                             Len(remaining[j]) < Len(remaining[i])
                 /\ exResult.title = returned.title
                 /\ exResult.status = "low_confidence"

\* a pool whose longest line comes second and fails validate_title, with a
\* purely numeric line that is discarded
C18_Witness ==
    /\ exPc = "returned" /\ ContentTierRan(exDoc, exResult)
    /\ exDoc.pages = <<PAGE_LOW>>
    /\ Len(Remaining(exDoc)) < Len(PooledLines(exDoc))
    /\ exResult.title = Remaining(exDoc)[2]
    /\ exResult.title # Remaining(exDoc)[1]
    /\ ~validate_title(exResult.title)
    /\ exResult.status = "low_confidence"

(***************************************************************************)
(* Properties of the candidate scorer (specification SpecText)             *)
(***************************************************************************)
\* the lines the scorer looks at: the first 10 of the trimmed lines of the
\* text that are longer than 3 characters
ScannedLines(region_text) ==
    LET lines == SplitLines(region_text)
        Meaningful(line) == Len(line) > 3
        kept == SelectSeq([i \in 1 .. Len(lines) |-> Strip(lines[i])], Meaningful)
    IN  SubSeq(kept, 1, IF Len(kept) < 10 THEN Len(kept) ELSE 10)

\* the scanned lines that match no non-title marker
Unmarked(scanned) ==
    {i \in 1 .. Len(scanned) : ~MatchesNonTitle(scanned[i])}

\* the unmarked lines the scorer takes for candidates: at least 3 words and
\* more than 10 characters
Candidates(scanned) ==
    {i \in Unmarked(scanned) : WordCount(scanned[i]) >= 3 /\ Len(scanned[i]) > 10}

\* the returned line is one of the given scanned lines, of maximal score
\* among them
BestOf(scanned, among, returned) ==
    \E i \in among :
        /\ returned = scanned[i]
        /\ \A j \in among : TitleScore(scanned[j]) <= TitleScore(scanned[i])

\* C19 as stated: when some scanned line without a non-title marker scores
\* positively, the returned line is a line of maximal score among the
\* scanned lines without a marker.
C19_BestUnmarkedWins ==
    (scPc = "out"
         /\ \E i \in Unmarked(ScannedLines(scIn)) :
                TitleScore(ScannedLines(scIn)[i]) > 0) =>
        BestOf(ScannedLines(scIn), Unmarked(ScannedLines(scIn)), scOut)

\* C19, amended: when some scanned line is a candidate (no marker, at least
\* 3 words, more than 10 characters), the returned line is a candidate of
\* maximal score among the candidates, whatever the other lines score and
\* even when that score is 0; it matches no non-title marker.
C19_BestCandidateWins ==
    (scPc = "out" /\ Candidates(ScannedLines(scIn)) # {}) =>
        /\ BestOf(ScannedLines(scIn), Candidates(ScannedLines(scIn)), scOut)
        /\ ~MatchesNonTitle(scOut)

\* a text whose best candidate is not its first line, next to a line with
\* a marker that would score more
C19_Witness ==
    /\ scPc = "out"
    /\ LET scanned == ScannedLines(scIn)
       IN  /\ Candidates(scanned) # {}
           /\ scOut # scanned[1]
           /\ 1 \in Candidates(scanned)
           /\ TitleScore(scanned[1]) < TitleScore(scOut)
           /\ \E i \in 1 .. Len(scanned) :
                 /\ MatchesNonTitle(scanned[i])
                 /\ TitleScore(scanned[i]) > TitleScore(scOut)

\* C20: the selection is a function of the ordered lines, with a stable
\* tie-break: the returned line is the earliest of the candidates of the
\* highest score, so every candidate before it scores less and no
\* candidate after it scores more.
C20_EarliestOfBestWins ==
    (scPc = "out" /\ Candidates(ScannedLines(scIn)) # {}) =>
        LET scanned == ScannedLines(scIn)
            cands == Candidates(scanned)
            first == CHOOSE i \in cands :
                         /\ \A j \in cands : TitleScore(scanned[j]) <= TitleScore(scanned[i])
                         /\ \A j \in cands :
                               j < i => TitleScore(scanned[j]) < TitleScore(scanned[i])
        IN  scOut = scanned[first]

\* two different candidates share the highest score, and the earlier one is
\* returned
C20_Witness ==
    /\ scPc = "out"
    /\ LET scanned == ScannedLines(scIn)
           cands == Candidates(scanned)
       IN  \E i, k \in cands :
               /\ i < k
               /\ scanned[i] # scanned[k]
               /\ TitleScore(scanned[i]) = TitleScore(scanned[k])
               /\ \A j \in cands : TitleScore(scanned[j]) <= TitleScore(scanned[i])
               /\ scOut = scanned[i]

(***************************************************************************)
(* The fallback of the candidate scorer (specification SpecText)           *)
(***************************************************************************)
\* the trimmed lines of a text that are not empty
NonEmptyLines(region_text) ==
    LET lines == SplitLines(region_text)
        NonEmpty(line) == line # <<>>
    IN  SelectSeq([i \in 1 .. Len(lines) |-> Strip(lines[i])], NonEmpty)

\* a line is longer than 15 characters and does not consist of digits only
LongLine(line) ==
    Len(line) > 15 /\ \E i \in 1 .. Len(line) : line[i] \notin DIGITS

\* the value the two fallback rules give for a sequence of lines: the first
\* of its first 5 lines that is a long line, else its first line, else none
FallbackOf(lines) ==
    LET first5 == {i \in 1 .. Len(lines) : i <= 5 /\ LongLine(lines[i])}
    IN  IF first5 # {}
        THEN lines[CHOOSE i \in first5 : \A j \in first5 : i <= j]
        ELSE IF lines # <<>> THEN lines[1]
        ELSE NONE

\* C21 as stated: when no scanned line without a non-title marker scores
\* positively, the result is the first of the first 5 non-empty lines that
\* is longer than 15 characters and not purely numeric, else the first
\* non-empty line; the result is none only when no line is non-empty.
C21_FallbackWhenNoPositive ==
    scPc = "out" =>
        /\ (\A i \in Unmarked(ScannedLines(scIn)) :
                TitleScore(ScannedLines(scIn)[i]) <= 0) =>
               scOut = FallbackOf(NonEmptyLines(scIn))
        /\ scOut = NONE => NonEmptyLines(scIn) = <<>>

\* C21, amended: when no scanned line is a candidate, the result is the
\* first of the first 5 trimmed lines longer than 3 characters that is
\* longer than 15 characters and not purely numeric, else the first trimmed
\* line longer than 3 characters; the result is none exactly when the text
\* has no trimmed line longer than 3 characters.
C21_FallbackWhenNoCandidate ==
    scPc = "out" =>
        /\ Candidates(ScannedLines(scIn)) = {} =>
               scOut = FallbackOf(ScannedLines(scIn))
        /\ scOut = NONE <=> ScannedLines(scIn) = <<>>

\* a text without a candidate whose result is a long line that comes after
\* a purely numeric line of more than 15 characters
C21_Witness ==
    /\ scPc = "out"
    /\ LET scanned == ScannedLines(scIn)
       IN  /\ Candidates(scanned) = {}
           /\ \E i \in 2 .. 5 :
                 /\ i <= Len(scanned)
                 /\ scOut = scanned[i]
                 /\ \E j \in 1 .. (i - 1) :
                       /\ Len(scanned[j]) > 15
                       /\ \A k \in 1 .. Len(scanned[j]) : scanned[j][k] \in DIGITS

(***************************************************************************)
(* The validation gate (specification SpecExtract)                         *)
(***************************************************************************)
\* the validity check as the design states it
TitleValid(title) ==
    /\ title # NONE
    /\ Len(title) >= 5
    /\ \/ \E k \in 1 .. Len(TITLE_KEYWORDS) : Contains(Lower(title), TITLE_KEYWORDS[k])
       \/ WordCount(title) >= 3 /\ Len(title) > 15

\* the strings validate_title is applied to for a document: the trimmed
\* metadata fields and the scorer's results for the four regions
Validated(doc) ==
    {Strip(doc.metadata[f]) : f \in 1 .. Len(doc.metadata)}
        \cup {ScorerResult(doc, region) : region \in {"content", "full", "header", "footer"}}

\* C22: validate_title accepts a title exactly when it has at least 5
\* characters and holds a title keyword or has at least 3 words and more
\* than 15 characters; a title returned with status content is a scorer
\* result that passes this check, so a scorer result that fails it is never
\* returned with status content.
C22_ValidationGate ==
    exPc = "returned" =>
        /\ \A title \in Validated(exDoc) : validate_title(title) <=> TitleValid(title)
        /\ exResult.status = "content" =>
               /\ TitleValid(exResult.title)
               /\ \E region \in {"content", "full", "header", "footer"} :
                      exResult.title = ScorerResult(exDoc, region)

\* the content box gives a line of three words and at most 15 characters
\* without a keyword, which is passed over, and the full page gives a line
\* of fewer than three words with a keyword, which is returned
C22_Witness ==
    /\ exPc = "returned"
    /\ exResult.status = "content"
    /\ Truthy(ScorerResult(exDoc, "content"))
    /\ WordCount(ScorerResult(exDoc, "content")) >= 3
    /\ ~TitleValid(ScorerResult(exDoc, "content"))
    /\ exResult.title = ScorerResult(exDoc, "full")
    /\ WordCount(exResult.title) < 3
    /\ Len(exResult.title) <= 15

(***************************************************************************)
(* The collision loop (specification Spec)                                 *)
(***************************************************************************)
\* the positions of a name where a numeric suffix starts: an underscore or
\* a hyphen followed by digits only, up to the end of the name
SuffixStarts(name) ==
    {i \in 1 .. (Len(name) - 1) :
        /\ name[i] \in {"_", "-"}
        /\ \A j \in (i + 1) .. Len(name) : name[j] \in DIGITS}

\* the name without its numeric suffix, if it has one
WithoutSuffix(name) ==
    IF SuffixStarts(name) = {} THEN name
    ELSE SubSeq(name, 1, (CHOOSE i \in SuffixStarts(name) :
                              \A j \in SuffixStarts(name) : j <= i) - 1)

\* the name without its extension .pdf, in whatever case
Stem(filename) ==
    IF Len(filename) >= 4
           /\ Lower(SubSeq(filename, Len(filename) - 3, Len(filename)))
                  = <<".", "p", "d", "f">>
    THEN SubSeq(filename, 1, Len(filename) - 4) ELSE filename

\* the name carries two numeric suffixes, one after the other
Stacked(filename) ==
    /\ SuffixStarts(Stem(filename)) # {}
    /\ SuffixStarts(WithoutSuffix(Stem(filename))) # {}

\* base_c.pdf
Suffixed(base, c) ==
    base \o <<"_">> \o IntToStr(c) \o <<".", "p", "d", "f">>

\* C23: when the chosen name exists, the name tried after c passes of the
\* loop is base_c.pdf, where base is the chosen name without extension and
\* without its numeric suffix, and base_1.pdf .. base_(c-1).pdf all exist;
\* no name written to a record carries two stacked numeric suffixes.
C23_SuffixStrippedNoStack ==
    /\ (pc = "collision" /\ cur.counter > 1) =>
           LET base == WithoutSuffix(Stem(cur.original_new_filename))
           IN  /\ cur.new_filename = Suffixed(base, cur.counter - 1)
               /\ \A c \in 1 .. (cur.counter - 2) :
                      PathExists(fs, hasSub, join(Top.directory, Suffixed(base, c)))
    /\ \A i \in 1 .. Len(excel_data) : ~Stacked(excel_data[i].new_filename)

(***************************************************************************)
(* Nothing is overwritten or lost (specification Spec)                     *)
(***************************************************************************)
\* the files of a tree that lie in the directory
FilesIn(files, directory) == {f \in files : f.dir = directory}

\* C24: every step that changes the tree puts a file under a path that no
\* file and no folder had before the step; each directory holds as many
\* files after the step as before, every file is still there, and no two
\* files share a path.
C24_NothingOverwritten ==
    [][/\ \A f \in fs' \ fs :
              /\ \A g \in fs : ~(g.dir = f.dir /\ g.name = f.name)
              /\ ~(hasSub /\ f.dir = ROOT /\ f.name = SUB_NAME)
       /\ \A directory \in {ROOT, SUB} :
              Cardinality(FilesIn(fs', directory)) = Cardinality(FilesIn(fs, directory))
       /\ \A f \in fs : \E g \in fs' : g.dir = f.dir /\ g.doc = f.doc
       /\ \A f, g \in fs' : (f.dir = g.dir /\ f.name = g.name) => f = g]_vars

\* a file was moved after the collision loop had passed over a name that
\* exists, and another file of its directory kept that name
C24_Witness ==
    /\ pc = "walk"
    /\ \E i \in 1 .. Len(trace) :
          /\ trace[i].moved = "moved"
          /\ trace[i].loops >= 1
          /\ \E f, g \in fs :
                /\ f # g /\ f.dir = g.dir /\ f.dir = excel_data[i].original_path
                /\ f.name = excel_data[i].new_filename

(***************************************************************************)
(* The records and the tree (specification Spec)                           *)
(***************************************************************************)
\* C25: when a record is written, the file it is about lies in its
\* directory under the new_filename of the record, whatever the status of
\* the record.
C25_RecordNamesFile ==
    [][Len(excel_data') > Len(excel_data) =>
           LET record == excel_data'[Len(excel_data')]
           IN  \E f \in fs :
                   /\ f.dir = record.original_path
                   /\ f.name = record.original_filename
                   /\ [f EXCEPT !.name = record.new_filename] \in fs']_vars

(***************************************************************************)
(* The counters (specification Spec)                                       *)
(***************************************************************************)
\* the sum of the four outcome counters
OutcomeSum(st) ==
    st.renamed_files + st.failed_files + st.encrypted_files + st.corrupted_files

\* C26: a PDF adds at most 1 to the sum of the outcome counters renamed,
\* failed, encrypted and corrupted: no step on a file adds more than 1 to
\* it, and the sum never exceeds the number of PDFs.
C26_OneOutcomePerPdf ==
    /\ OutcomeSum(stats) <= stats.pdf_files
    /\ OutcomeSum(stats) <= Len(excel_data) + (IF pc = "collision" THEN 1 ELSE 0)

\* C27: in every state of the walk, total_files is the sum of skipped_files
\* and pdf_files; every PDF counted has its record, but the one whose name
\* is being settled, so that the records are as many as the PDFs when the
\* walk is over.
C27_CountsAndRecordsAgree ==
    /\ stats.total_files = stats.skipped_files + stats.pdf_files
    /\ Len(excel_data) + (IF pc = "collision" THEN 1 ELSE 0) = stats.pdf_files

\* the walk is over, after two PDFs, one of which failed, and a skipped
\* file
C27_Witness ==
    /\ pc = "report"
    /\ stats.pdf_files >= 2
    /\ stats.skipped_files >= 1
    /\ \E i \in 1 .. Len(excel_data) :
          excel_data[i].status \in {"rename_failed", "processing_error"}

(***************************************************************************)
(* The extension of the assigned names (specification Spec)                *)
(***************************************************************************)
\* the last four characters of the name are .pdf
HasPdfExtension(filename) ==
    /\ Len(filename) >= 4
    /\ SubSeq(filename, Len(filename) - 3, Len(filename)) = <<".", "p", "d", "f">>

\* C28: a name that the run assigns to a file, on whatever naming path,
\* ends with .pdf, and what comes before this extension does not end with
\* .pdf again.
C28_OnePdfExtension ==
    \A i \in 1 .. Len(excel_data) :
        excel_data[i].new_filename # excel_data[i].original_filename =>
            /\ HasPdfExtension(excel_data[i].new_filename)
            /\ ~HasPdfExtension(SubSeq(excel_data[i].new_filename, 1,
                                       Len(excel_data[i].new_filename) - 4))

(***************************************************************************)
(* A second run (specification SpecRerun)                                  *)
(***************************************************************************)
\* every PDF of the tree has a title, so that its name does not depend on
\* the time of the run
AllTitled ==
    \A f \in fs :
        (IsPdfName(f.name) /\ ~MatchesSkipPattern(f.name)) =>
            Truthy(ExtractedTitle[f.doc].title)

\* C29: a run on the tree that a run without failure has left, with the
\* same titles, moves no file and counts no file as renamed, whatever the
\* order of the listings.
C29_RerunMovesNothing ==
    [][(runs = 2 /\ faults = 0 /\ AllTitled) =>
           (fs' = fs /\ stats'.renamed_files = 0)]_vars

(***************************************************************************)
(* The tallies of the reporter (specification SpecReport)                  *)
(***************************************************************************)
\* the sum of the values of a dict of counts
SumOf(counts) ==
    LET RECURSIVE SumOver(_)
        SumOver(keys) ==
            IF keys = {} THEN 0
            ELSE LET k == CHOOSE key \in keys : TRUE
                 IN  counts[k] + SumOver(keys \ {k})
    IN  SumOver(DOMAIN counts)

\* C30: between two entries of the scan, and after it, total_papers is the
\* number of rows of papers_data, the sum of institution_counts and the sum
\* of publisher_counts; run has returned False if the scan met no PDF, and
\* True if it met one, whatever the two report writers returned.
C30_TalliesAgreeRunReturns ==
    /\ report_stats.total_papers = Len(papers_data)
    /\ report_stats.total_papers = SumOf(report_stats.institution_counts)
    /\ report_stats.total_papers = SumOf(report_stats.publisher_counts)
    /\ repPc = "done" =>
           /\ repFound = 0 => repRet = "False"
           /\ repFound > 0 => repRet = "True"

\* run has returned True although both report writers failed, after a scan
\* that counted two papers for one institution and met two publishers
C30_Witness ==
    /\ repPc = "done"
    /\ repRet = "True"
    /\ repWriters.excel = "False" /\ repWriters.text = "False"
    /\ \E i \in DOMAIN report_stats.institution_counts :
          report_stats.institution_counts[i] >= 2
    /\ Cardinality(DOMAIN report_stats.publisher_counts) >= 2

====
